---------------------------- MODULE Spec2Model ----------------------------
(***************************************************************************)
(* A model of the gzip decompressor of this repository: decompress_gz      *)
(* (gz.rs), parse_header (header.rs), GzBitReader (gz_reader.rs), the      *)
(* Huffman tree construction and decoding (huffman.rs), inflate            *)
(* (inflate.rs), the byte buffer CVec and its iterator (cvec.rs) and the   *)
(* CRC-32 (crc32.rs).                                                      *)
(*                                                                         *)
(* Conventions.                                                            *)
(*  - Option::None of an Option<u8>/Option<u32> is the value None (-1);    *)
(*    every Some(v) is v >= 0.                                             *)
(*  - A u32 whose upper bits matter (the CRC, the footer words, wrapping   *)
(*    u32 arithmetic) is kept as a pair <<hi, lo>> of 16-bit halves, the   *)
(*    value being hi * 2^16 + lo, so that all arithmetic is exact.         *)
(*  - A HuffmanNode tree is a function from heap positions to nodes: the   *)
(*    root is 1, the left child of k is 2k, the right child 2k+1; a child  *)
(*    is absent (Option::None) when its position is not in the domain.     *)
(*  - A panic (assert!, index out of bounds, panic!) ends the run with     *)
(*    result = "abort".                                                    *)
(*  - malloc/realloc are taken to succeed.                                 *)
(***************************************************************************)
EXTENDS Integers, Sequences, FiniteSets, TLC

None == -1

Pow2(n) == 2 ^ n

Min(a, b) == IF a < b THEN a ELSE b

(***************************************************************************)
(* 16-bit and 32-bit machine arithmetic                                    *)
(***************************************************************************)
\* a ^ b on non-negative integers, four bits at a time
RECURSIVE XorBits(_, _)
XorBits(a, b) ==
    IF a = 0 THEN b
    ELSE IF b = 0 THEN a
    ELSE ((a + b) % 2) + 2 * XorBits(a \div 2, b \div 2)
XorNibble == [a \in 0 .. 15 |-> [b \in 0 .. 15 |-> XorBits(a, b)]]
RECURSIVE BitXor(_, _)
BitXor(a, b) ==
    IF a = 0 THEN b
    ELSE IF b = 0 THEN a
    ELSE XorNibble[a % 16][b % 16] + 16 * BitXor(a \div 16, b \div 16)

\* bit `index` of a non-negative integer
BitAt(input, index) == (input \div Pow2(index)) % 2

W32(n) == <<n \div 65536, n % 65536>>

Xor32(a, b) == <<BitXor(a[1], b[1]), BitXor(a[2], b[2])>>

\* a >> 1 and a >> 8 on a u32
Shr1(a) == <<a[1] \div 2, (a[2] \div 2) + (a[1] % 2) * 32768>>
Shr8(a) == <<a[1] \div 256, (a[2] \div 256) + (a[1] % 256) * 256>>

\* wrapping u32 addition and subtraction
Add32(a, b) ==
    LET lo == a[2] + b[2]
        hi == a[1] + b[1] + (lo \div 65536)
    IN  <<hi % 65536, lo % 65536>>

Sub32(a, b) ==
    LET lo == a[2] - b[2]
        borrow == IF lo < 0 THEN 1 ELSE 0
        hi == a[1] - b[1] - borrow
    IN  <<(hi + 65536) % 65536, (lo + 65536) % 65536>>

(***************************************************************************)
(* cvec.rs: CVec and Iter                                                  *)
(***************************************************************************)
\* CVec::get: bounds-checked read, indices from 0
get(cvec, index) ==
    IF index >= 0 /\ index < Len(cvec) THEN cvec[index + 1] ELSE None

\* CVec::get_wide::<c_uint>: the four bytes at index, or None; the value is
\* read in the byte order of the machine (little-endian)
get_wide(cvec, index) ==
    IF index + 4 > Len(cvec) THEN <<None, None>>
    ELSE <<cvec[index + 3] + 256 * cvec[index + 4],
           cvec[index + 1] + 256 * cvec[index + 2]>>

\* Iter::new and Iter::limit_new; limit = None is Option::None
Iter_new == [index |-> 0, limit |-> None]
\* a limit iterator that takes no limit
limit_new_unlimited(index, limit) == [index |-> index, limit |-> None]
limit_new(index, limit) == [index |-> index, limit |-> limit]

\* Iter::next: the index advances also when nothing is returned
Iter_next(it, cvec) ==
    LET index == it.index
        moved == [it EXCEPT !.index = index + 1]
    IN  IF it.limit # None /\ moved.index > it.limit
        THEN [it |-> moved, v |-> None]
        ELSE [it |-> moved, v |-> get(cvec, index)]

\* Iter::next_wide::<u32>
next_wide(it, cvec) ==
    LET index == it.index
        moved == [it EXCEPT !.index = index + 4]
    IN  IF it.limit # None /\ moved.index > it.limit
        THEN [it |-> moved, v |-> <<None, None>>]
        ELSE [it |-> moved, v |-> get_wide(cvec, index)]

\* CVec::push (the reallocation succeeds)
push(cvec, value) == Append(cvec, value)

\* Index::index: assert!(index < len). A back pointer that wrapped below 0
\* is a usize above every length.
IndexOk(cvec, index) == index >= 0 /\ index < Len(cvec)

\* One iteration of the loop of copy_back_pointer: c = self[back_ptr];
\* self.push(c). acc = [ok, cvec]; ok = FALSE once the index assertion failed.
copy_step(acc, back_ptr) ==
    IF ~acc.ok THEN acc
    ELSE IF IndexOk(acc.cvec, back_ptr)
         THEN [ok |-> TRUE, cvec |-> push(acc.cvec, acc.cvec[back_ptr + 1])]
         ELSE [ok |-> FALSE, cvec |-> acc.cvec]

\* a faulty loop, whose back pointer does not advance
copy_loop_stuck(acc, lo, hi) ==
    IF lo > hi THEN acc
    ELSE IF ~IndexOk(acc.cvec, lo) THEN [ok |-> FALSE, cvec |-> acc.cvec]
    ELSE [ok |-> TRUE,
          cvec |-> acc.cvec \o [k \in 1 .. (hi - lo + 1) |-> acc.cvec[lo + 1]]]

\* The iterations with back_ptr = lo .. hi in order (the range is halved so
\* that the evaluation depth stays logarithmic; the loop has ended once the
\* assertion failed)
RECURSIVE copy_loop(_, _, _)
copy_loop(acc, lo, hi) ==
    IF lo > hi THEN acc
    ELSE IF lo = hi THEN copy_step(acc, lo)
    ELSE LET mid == (lo + hi) \div 2
             first == copy_loop(acc, lo, mid)
         IN  IF first.ok THEN copy_loop(first, mid + 1, hi) ELSE first

\* a faulty start of the copy, one byte too late
BackPtrStart_late(len, distance) == len - distance

\* let mut back_ptr = self.len - distance - 1
BackPtrStart(len, distance) == len - distance - 1

\* CVec::copy_back_pointer: [ok |-> FALSE] when the index assertion fails
copy_back_pointer(cvec, distance, length) ==
    LET back_ptr == BackPtrStart(Len(cvec), distance)
    IN  copy_loop([ok |-> TRUE, cvec |-> cvec], back_ptr, back_ptr + length - 1)

(***************************************************************************)
(* gz_reader.rs: GzBitReader = [iter, buf, mask]                           *)
(***************************************************************************)
\* GzBitReader::new: [ok, rd]
GzBitReader_new(iter, cvec) ==
    LET n == Iter_next(iter, cvec)
    IN  IF n.v = None
        THEN [ok |-> FALSE, rd |-> [iter |-> n.it, buf |-> 0, mask |-> 0]]
        ELSE [ok |-> TRUE, rd |-> [iter |-> n.it, buf |-> n.v, mask |-> 1]]

\* mask <<= 1 on a u8
ShlMask(mask) == (mask * 2) % 256

\* next_bit: [rd, v], v = None on failure
\* the end of next_bit: bit = (buf & mask) > 0; mask <<= 1
next_bit_take(rd) ==
    [rd |-> [rd EXCEPT !.mask = ShlMask(rd.mask)],
     v |-> IF (rd.buf \div rd.mask) % 2 = 1 THEN 1 ELSE 0]
\* the branch of next_bit for mask = 0, n being what iter.next() returned
next_bit_load(rd, n) ==
    IF n.v = None THEN [rd |-> [rd EXCEPT !.iter = n.it], v |-> None]
    ELSE next_bit_take([iter |-> n.it, buf |-> n.v, mask |-> 1])
next_bit(rd, cvec) ==
    IF rd.mask = 0 THEN next_bit_load(rd, Iter_next(rd.iter, cvec))
    ELSE next_bit_take(rd)

OrShl32_low(value, bit, i) ==
    IF i < 16 THEN <<value[1], value[2] + bit * Pow2(i)>> ELSE value
ShlOr32_nocarry(value, bit) ==
    <<(value[1] * 2) % 65536, ((value[2] * 2) % 65536) + bit>>

\* value | (bit << i) and (value << 1) | bit on a u32 <<hi, lo>>
OrShl32(value, bit, i) ==
    IF i < 16 THEN <<value[1], value[2] + bit * Pow2(i)>>
    ELSE <<value[1] + bit * Pow2(i - 16), value[2]>>
ShlOr32(value, bit) ==
    <<(value[1] * 2 + (value[2] \div 32768)) % 65536,
      ((value[2] * 2) % 65536) + bit>>

\* a u32 below 2^31 as an integer; Option::None stays None
Narrow(r) ==
    IF r.v[1] = None THEN [rd |-> r.rd, v |-> None]
    ELSE [rd |-> r.rd, v |-> r.v[1] * 65536 + r.v[2]]

\* read_bits: value |= bit << i for i in 0 .. count-1.  r = [rd, v] is the
\* reader and the u32 value = <<hi, lo>> so far, v = <<None, None>> once
\* try_opt! has returned Option::None; read_bits_step is the body of the
\* loop, b being what next_bit returned.  read_bits returns the value as an
\* integer (the decoder reads at most 14 bits at a time).
read_bits_step(r, b, i) ==
    IF b.v = None THEN [rd |-> b.rd, v |-> <<None, None>>]
    ELSE [rd |-> b.rd, v |-> OrShl32(r.v, b.v, i)]
RECURSIVE read_bits_loop(_, _, _, _)
read_bits_loop(r, cvec, count, i) ==
    IF r.v[1] = None \/ i >= count THEN r
    ELSE read_bits_loop(read_bits_step(r, next_bit(r.rd, cvec), i), cvec,
                        count, i + 1)

read_bits_u32(rd, cvec, count) ==
    read_bits_loop([rd |-> rd, v |-> <<0, 0>>], cvec, count, 0)
read_bits(rd, cvec, count) == Narrow(read_bits_u32(rd, cvec, count))

\* read_bits_rev: value <<= 1; value |= bit
read_bits_rev_step(r, b) ==
    IF b.v = None THEN [rd |-> b.rd, v |-> <<None, None>>]
    ELSE [rd |-> b.rd, v |-> ShlOr32(r.v, b.v)]
RECURSIVE read_bits_rev_loop(_, _, _, _)
read_bits_rev_loop(r, cvec, count, i) ==
    IF r.v[1] = None \/ i >= count THEN r
    ELSE read_bits_rev_loop(read_bits_rev_step(r, next_bit(r.rd, cvec)),
                            cvec, count, i + 1)

read_bits_rev_u32(rd, cvec, count) ==
    read_bits_rev_loop([rd |-> rd, v |-> <<0, 0>>], cvec, count, 0)
read_bits_rev(rd, cvec, count) == Narrow(read_bits_rev_u32(rd, cvec, count))

(***************************************************************************)
(* crc32.rs                                                                *)
(***************************************************************************)
IEEE == <<60856, 33568>>      \* 0xedb88320

RECURSIVE crc_table_entry(_, _)
crc_table_entry(v, k) ==
    IF k = 0 THEN v
    ELSE crc_table_entry(IF v[2] % 2 # 0 THEN Xor32(IEEE, Shr1(v)) ELSE Shr1(v),
                         k - 1)

\* Crc32::new: the table
crc_table == [i \in 0 .. 255 |-> crc_table_entry(<<0, i>>, 8)]

CrcInit == <<65535, 65535>>   \* 0xffffffff

crc_update_unshifted(value, byte) ==
    Xor32(crc_table[BitXor(value[2] % 256, byte)], value)

crc_update(value, byte) ==
    Xor32(crc_table[BitXor(value[2] % 256, byte)], Shr8(value))

\* the loop of Crc32::sum over the bytes lo .. hi (the range is halved so
\* that the evaluation depth stays logarithmic)
RECURSIVE crc_fold(_, _, _, _)
crc_fold(value, cvec, lo, hi) ==
    IF lo > hi THEN value
    ELSE IF lo = hi THEN crc_update(value, cvec[lo])
    ELSE LET mid == (lo + hi) \div 2
             first == crc_fold(value, cvec, lo, mid)
         IN  IF first[2] >= 0 THEN crc_fold(first, cvec, mid + 1, hi) ELSE first

\* crc32::sum over buf.iter()
crc32_sum(cvec) == Xor32(crc_fold(CrcInit, cvec, 1, Len(cvec)), <<65535, 65535>>)

(***************************************************************************)
(* huffman.rs                                                              *)
(***************************************************************************)
HuffmanRange(end, bit_length) == [end |-> end, bit_length |-> bit_length]

Node == [leaf |-> FALSE]
Leaf(v) == [leaf |-> TRUE, v |-> v]

\* ranges.iter().map(|x| x.bit_length).max() of a non-empty range list
max_bit_length_of(ranges) ==
    CHOOSE m \in {ranges[k].bit_length : k \in DOMAIN ranges} :
        \A k \in DOMAIN ranges : ranges[k].bit_length <= m

count_bitlengths_short(ranges, max_bit_length) ==
    LET width(k) == IF k = 1 THEN ranges[k].end
                    ELSE ranges[k].end - ranges[k - 1].end
        RECURSIVE total(_, _, _)
        total(L, lo, hi) ==
            IF lo > hi THEN 0
            ELSE IF lo = hi
                 THEN (IF ranges[lo].bit_length = L THEN width(lo) ELSE 0)
                 ELSE total(L, lo, (lo + hi) \div 2)
                      + total(L, (lo + hi) \div 2 + 1, hi)
    IN  [L \in 1 .. max_bit_length |-> total(L, 1, Len(ranges))]

\* count_bitlengths: position L of the result is vector index L - 1; the
\* first range counts end + 1 symbols, a later one end - old_range.end
count_bitlengths(ranges, max_bit_length) ==
    LET width(k) == IF k = 1 THEN ranges[k].end + 1
                    ELSE ranges[k].end - ranges[k - 1].end
        RECURSIVE total(_, _, _)
        total(L, lo, hi) ==
            IF lo > hi THEN 0
            ELSE IF lo = hi
                 THEN (IF ranges[lo].bit_length = L THEN width(lo) ELSE 0)
                 ELSE total(L, lo, (lo + hi) \div 2)
                      + total(L, (lo + hi) \div 2 + 1, hi)
    IN  [L \in 1 .. max_bit_length |-> total(L, 1, Len(ranges))]

\* compute_first_codes: code = (code + bl_count[bits - 1]) << 1
RECURSIVE compute_first_codes_loop(_, _, _, _)
compute_first_codes_loop(bl_count, bits, code, ret) ==
    IF bits > Len(bl_count) THEN ret
    ELSE LET c == IF bits > 1 THEN (code + bl_count[bits - 1]) * 2 ELSE code
         IN  compute_first_codes_loop(bl_count, bits + 1, c,
                 Append(ret, IF bl_count[bits] > 0 THEN c ELSE 0))

compute_first_codes(bl_count) == compute_first_codes_loop(bl_count, 1, 0, <<>>)

TreeNode(len, bits, label) == [len |-> len, bits |-> bits, label |-> label]

\* One iteration of the loop of compute_code_table, for symbol n;
\* acc = [next_code, active_range, ret]
code_table_step(acc, ranges, n) ==
    LET active == IF n > ranges[acc.active_range].end
                  THEN acc.active_range + 1 ELSE acc.active_range
        bit_length == ranges[active].bit_length
    IN  IF bit_length > 0
        THEN [next_code |-> [acc.next_code EXCEPT ![bit_length] = @ + 1],
              active_range |-> active,
              ret |-> Append(acc.ret,
                             TreeNode(bit_length, acc.next_code[bit_length], n))]
        ELSE [acc EXCEPT !.active_range = active]

\* the iterations for n = lo .. hi in order
RECURSIVE compute_code_table_loop(_, _, _, _)
compute_code_table_loop(acc, ranges, lo, hi) ==
    IF lo > hi THEN acc
    ELSE IF lo = hi THEN code_table_step(acc, ranges, lo)
    ELSE LET mid == (lo + hi) \div 2
             first == compute_code_table_loop(acc, ranges, lo, mid)
         IN  IF first.active_range > 0
             THEN compute_code_table_loop(first, ranges, mid + 1, hi)
             ELSE first

\* compute_code_table: symbols 0 ..= num_entries in order
compute_code_table(next_code, ranges) ==
    compute_code_table_loop(
        [next_code |-> next_code, active_range |-> 1, ret |-> <<>>],
        ranges, 0, ranges[Len(ranges)].end).ret

\* What `1 << index` yields when index is not below the width of usize
\* (make_tree is entered with len = -1, cast to usize): the build decides.
ShiftOverflow == {"panic", "zero", "one"}

\* get_bit answering with the complement of the bit
get_bit_inverted(input, index, ovf) ==
    IF index >= 0 THEN (IF BitAt(input, index) > 0 THEN 0 ELSE 1)
    ELSE CASE ovf = "panic" -> None
           [] ovf = "zero" -> 0
           [] OTHER -> 1

\* get_bit(input, index); index is `len as usize`, ovf the build's behaviour.
\* The result is 0, 1, or None for a panic.
get_bit(input, index, ovf) ==
    IF index >= 0 THEN (IF BitAt(input, index) > 0 THEN 1 ELSE 0)
    ELSE CASE ovf = "panic" -> None
           [] ovf = "zero" -> 0
           [] OTHER -> 1

\* make_new_tree rooted at heap position k: the chain of nodes down to the
\* leaf; [ok |-> FALSE] on a panic
RECURSIVE make_new_tree(_, _, _, _, _)
make_new_tree(k, bits, len, value, ovf) ==
    IF len < 0 THEN [ok |-> TRUE, tree |-> (k :> Leaf(value))]
    ELSE LET b == get_bit(bits, len, ovf)
             sub == make_new_tree(2 * k + b, bits, len - 1, value, ovf)
         IN  IF b = None \/ ~sub.ok THEN [ok |-> FALSE, tree |-> <<>>]
             ELSE [ok |-> TRUE, tree |-> (k :> Node) @@ sub.tree]

\* make_tree on the node at position k, and make_tree_side on its child
RECURSIVE make_tree(_, _, _, _, _, _)
make_tree(tree, k, bits, len, label, ovf) ==
    IF tree[k].leaf THEN [ok |-> FALSE, tree |-> tree]
    ELSE LET b == get_bit(bits, len, ovf)
             side == 2 * k + b
         IN  IF b = None THEN [ok |-> FALSE, tree |-> tree]
             ELSE IF side \notin DOMAIN tree
                  THEN LET new == make_new_tree(side, bits, len - 1, label, ovf)
                       IN  IF new.ok THEN [ok |-> TRUE, tree |-> new.tree @@ tree]
                           ELSE [ok |-> FALSE, tree |-> tree]
                  ELSE make_tree(tree, side, bits, len - 1, label, ovf)

\* the iterations of the loop of build_tree for the entries lo .. hi, in
\* order; acc = [ok, tree], ok = FALSE once make_tree panicked
RECURSIVE build_tree_loop(_, _, _, _, _)
build_tree_loop(acc, code_table, lo, hi, ovf) ==
    IF lo > hi \/ ~acc.ok THEN acc
    ELSE IF lo = hi
         THEN LET t_node == code_table[lo]
              IN  make_tree(acc.tree, 1, t_node.bits, t_node.len - 1,
                            t_node.label, ovf)
         ELSE LET mid == (lo + hi) \div 2
                  first == build_tree_loop(acc, code_table, lo, mid, ovf)
              IN  IF first.ok
                  THEN build_tree_loop(first, code_table, mid + 1, hi, ovf)
                  ELSE first

\* build_tree: insert every entry of the code table under Node(None, None)
build_tree(code_table, ovf) ==
    build_tree_loop([ok |-> TRUE, tree |-> (1 :> Node)], code_table, 1,
                    Len(code_table), ovf)

\* build_huffman_tree: [ok |-> TRUE, tree] or [ok |-> FALSE] for a panic
\* (it returns Option::None only for an empty range list, which no caller
\* passes)
build_huffman_tree(ranges, ovf) ==
    LET max_bit_length == max_bit_length_of(ranges)
        bl_count == count_bitlengths(ranges, max_bit_length)
        next_code == compute_first_codes(bl_count)
        table == compute_code_table(next_code, ranges)
    IN  build_tree(table, ovf)

\* HuffmanNode::read from the node at position k: [rd, v]
\* (read_side is the Node branch, b being what next_bit returned)
RECURSIVE read(_, _, _, _)
read_side(tree, k, b, cvec) ==
    IF b.v = None THEN [rd |-> b.rd, v |-> None]
    ELSE IF 2 * k + b.v \notin DOMAIN tree THEN [rd |-> b.rd, v |-> None]
    ELSE read(tree, 2 * k + b.v, b.rd, cvec)
read(tree, k, rd, cvec) ==
    IF tree[k].leaf THEN [rd |-> rd, v |-> tree[k].v]
    ELSE read_side(tree, k, next_bit(rd, cvec), cvec)

(***************************************************************************)
(* inflate.rs: tables                                                      *)
(***************************************************************************)
CODE_LENGTH_OFFSETS ==
    <<16, 17, 18, 0, 8, 7, 9, 6, 10, 5, 11, 4, 12, 3, 13, 2, 14, 1, 15>>

EXTRA_LENGTH_ADDEND ==
    <<11, 13, 15, 17, 19, 23, 27, 31, 35, 43, 51, 59, 67, 83, 99, 115, 131,
      163, 195, 227>>

EXTRA_DIST_ADDEND ==
    <<4, 6, 8, 12, 16, 24, 32, 48, 64, 96, 128, 192, 256, 384, 512, 768, 1024,
      1536, 2048, 3072, 4096, 6144, 8192, 12288, 16384, 24576>>

FIXED_TREE_RANGES ==
    <<HuffmanRange(143, 8), HuffmanRange(255, 9), HuffmanRange(279, 7),
      HuffmanRange(287, 8)>>

\* build_fixed_huffman_tree; no code of the fixed ranges is a prefix of
\* another, so the shift behaviour is never consulted
\* build_fixed_huffman_tree (no code of the fixed ranges is a prefix of
\* another, so no shift overflows)
build_fixed_huffman_tree == build_huffman_tree(FIXED_TREE_RANGES, "panic")

(***************************************************************************)
(* header.rs                                                               *)
(***************************************************************************)
GZ_MAGIC_BYTES == <<31, 139>>      \* [0x1f, 0x8b]

Flags_new_swapped(flags) ==
    [FTEXT |-> BitAt(flags, 0) # 0, FHCRC |-> BitAt(flags, 1) # 0,
     FEXTRA |-> BitAt(flags, 3) # 0, FNAME |-> BitAt(flags, 2) # 0,
     FCOMMENT |-> BitAt(flags, 4) # 0]

\* Flags::new
Flags_new(flags) ==
    [FTEXT |-> BitAt(flags, 0) # 0, FHCRC |-> BitAt(flags, 1) # 0,
     FEXTRA |-> BitAt(flags, 2) # 0, FNAME |-> BitAt(flags, 3) # 0,
     FCOMMENT |-> BitAt(flags, 4) # 0]

InRange(b, lo, hi) == lo <= b /\ b <= hi

\* String::from_utf8(bytes).is_ok(): the number of bytes of the well-formed
\* UTF-8 sequence that starts at position k (0 when there is none)
utf8_width(bytes, k) ==
    LET n == Len(bytes)
        b0 == bytes[k]
        b(j) == bytes[k + j]
        cont(j) == InRange(b(j), 128, 191)
    IN  IF b0 < 128 THEN 1
        ELSE IF InRange(b0, 194, 223) /\ k + 1 <= n /\ cont(1) THEN 2
        ELSE IF k + 2 <= n /\ cont(2)
                /\ \/ b0 = 224 /\ InRange(b(1), 160, 191)
                   \/ InRange(b0, 225, 236) /\ cont(1)
                   \/ b0 = 237 /\ InRange(b(1), 128, 159)
                   \/ InRange(b0, 238, 239) /\ cont(1)
             THEN 3
        ELSE IF k + 3 <= n /\ cont(2) /\ cont(3)
                /\ \/ b0 = 240 /\ InRange(b(1), 144, 191)
                   \/ InRange(b0, 241, 243) /\ cont(1)
                   \/ b0 = 244 /\ InRange(b(1), 128, 143)
             THEN 4
        ELSE 0

RECURSIVE utf8_from(_, _)
utf8_from(bytes, k) ==
    IF k > Len(bytes) THEN TRUE
    ELSE LET w == utf8_width(bytes, k)
         IN  IF w = 0 THEN FALSE ELSE utf8_from(bytes, k + w)

from_utf8_ok(bytes) == utf8_from(bytes, 1)

\* the bytes of cvec at indices from .. to - 1
Slice(cvec, from, to) == [k \in 1 .. (to - from) |-> cvec[from + k]]

\* get_extra: [it, v]; v = [some |-> FALSE] is None. A try_opt! inside the
\* block returns None from get_extra with the iterator where it stopped.
get_extra(flags, it, cvec) ==
    LET absent == [some |-> FALSE]
        n1 == Iter_next(it, cvec)
        n2 == Iter_next(n1.it, cvec)
        n3 == Iter_next(n2.it, cvec)
        n4 == Iter_next(n3.it, cvec)
        len == n3.v * 256 + n4.v
        start == n4.it.index
        avail == Len(cvec) - start
    IN  IF ~flags.FEXTRA THEN [it |-> it, v |-> absent]
        ELSE IF n1.v = None THEN [it |-> n1.it, v |-> absent]
        ELSE IF n2.v = None THEN [it |-> n2.it, v |-> absent]
        ELSE IF ~from_utf8_ok(<<n1.v, n2.v>>) THEN [it |-> n2.it, v |-> absent]
        ELSE IF n3.v = None THEN [it |-> n3.it, v |-> absent]
        ELSE IF n4.v = None THEN [it |-> n4.it, v |-> absent]
        ELSE IF len > avail
             \* the loop reads the avail bytes left and fails on the next
             THEN [it |-> [n4.it EXCEPT !.index = start + avail + 1], v |-> absent]
             ELSE [it |-> [n4.it EXCEPT !.index = start + len],
                   v |-> [some |-> TRUE, id |-> <<n1.v, n2.v>>,
                          data |-> Slice(cvec, start, start + len)]]

\* get_string: the loop ends at the first 0x00 (consumed) or when the
\* iterator is exhausted (the failing next still advances the index)
get_string(flag, it, cvec) ==
    LET absent == [some |-> FALSE]
        start == it.index
        zeros == {k \in start .. Len(cvec) - 1 : cvec[k + 1] = 0}
        stop == IF zeros = {} THEN Len(cvec)
                ELSE CHOOSE k \in zeros : \A z \in zeros : k <= z
        str_bytes == IF start <= stop THEN Slice(cvec, start, stop) ELSE <<>>
    IN  IF ~flag THEN [it |-> it, v |-> absent]
        ELSE [it |-> [it EXCEPT !.index = IF start <= stop THEN stop + 1
                                          ELSE start + 1],
              v |-> IF from_utf8_ok(str_bytes)
                    THEN [some |-> TRUE, s |-> str_bytes] ELSE absent]

\* header::get_crc: the 16-bit header CRC, high byte first
header_get_crc(flags, it, cvec) ==
    LET n1 == Iter_next(it, cvec)
        n2 == Iter_next(n1.it, cvec)
    IN  IF ~flags.FHCRC THEN [it |-> it, v |-> None]
        ELSE IF n1.v = None THEN [it |-> n1.it, v |-> None]
        ELSE IF n2.v = None THEN [it |-> n2.it, v |-> None]
        ELSE [it |-> n2.it, v |-> (n1.v * 256 + n2.v) % 65536]

\* parse_header: [ok |-> FALSE] is None
parse_header(cvec) ==
    LET fail == [ok |-> FALSE]
        m0 == Iter_next(Iter_new, cvec)
        m1 == Iter_next(m0.it, cvec)
        cm == Iter_next(m1.it, cvec)
        fl == Iter_next(cm.it, cvec)
        mt == next_wide(fl.it, cvec)
        xf == Iter_next(mt.it, cvec)
        os == Iter_next(xf.it, cvec)
        flags == Flags_new(fl.v)
        extra == get_extra(flags, os.it, cvec)
        name == get_string(flags.FNAME, extra.it, cvec)
        comment == get_string(flags.FCOMMENT, name.it, cvec)
        crc16 == header_get_crc(flags, comment.it, cvec)
    IN  IF m0.v = None THEN fail
        ELSE IF m0.v # GZ_MAGIC_BYTES[1] THEN fail
        ELSE IF m1.v = None THEN fail
        ELSE IF m1.v # GZ_MAGIC_BYTES[2] THEN fail
        ELSE IF cm.v = None \/ cm.v # 8 THEN fail
        ELSE IF fl.v = None THEN fail
        ELSE IF mt.v[1] = None THEN fail
        ELSE IF xf.v = None THEN fail
        ELSE IF os.v = None THEN fail
        ELSE [ok |-> TRUE,
              header_len |-> crc16.it.index,
              compression_method |-> cm.v,
              flags |-> flags,
              mtime |-> mt.v,
              extra_flags |-> xf.v,
              os |-> os.v,
              extra |-> extra.v,
              fname |-> name.v,
              comment |-> comment.v,
              crc |-> crc16.v]

(***************************************************************************)
(* inflate.rs: reading the trees of a dynamic block                        *)
(***************************************************************************)
\* The range list both tree readers build from an array of code lengths:
\* a range is pushed where the length changes, and the last one at the end.
ranges_of(lengths) ==
    LET n == Len(lengths)
        marked == [k \in 1 .. n |->
                     [end |-> k - 1, bit_length |-> lengths[k],
                      last |-> (k = n \/ lengths[k + 1] # lengths[k])]]
        kept == SelectSeq(marked, LAMBDA r : r.last)
    IN  [k \in 1 .. Len(kept) |-> HuffmanRange(kept[k].end, kept[k].bit_length)]

\* the first loop of build_code_length_tree: code_lengths[CODE_LENGTH_OFFSETS[i]]
\* = read_bits(3) for i in 0 .. hclen + 3; [rd, ok, code_lengths]
RECURSIVE read_code_length_lengths(_, _, _, _, _)
read_code_length_lengths_step(b, cvec, n, i, code_lengths) ==
    IF b.v = None
    THEN [rd |-> b.rd, ok |-> FALSE, code_lengths |-> code_lengths]
    ELSE read_code_length_lengths(b.rd, cvec, n, i + 1,
             [code_lengths EXCEPT ![CODE_LENGTH_OFFSETS[i + 1] + 1] = b.v])
read_code_length_lengths(rd, cvec, n, i, code_lengths) ==
    IF i >= n THEN [rd |-> rd, ok |-> TRUE, code_lengths |-> code_lengths]
    ELSE read_code_length_lengths_step(read_bits(rd, cvec, 3), cvec, n, i,
                                       code_lengths)

\* build_code_length_tree: [rd, status, ranges, tree]; status is "ok",
\* "none" (the stream ended) or "panic" (build_huffman_tree panicked)
code_length_tree_built(rd, code_length_ranges, built) ==
    IF ~built.ok
    THEN [rd |-> rd, status |-> "panic", ranges |-> code_length_ranges,
          tree |-> <<>>]
    ELSE [rd |-> rd, status |-> "ok", ranges |-> code_length_ranges,
          tree |-> built.tree]
code_length_tree_ranges(rd, code_length_ranges, ovf) ==
    code_length_tree_built(rd, code_length_ranges,
                           build_huffman_tree(code_length_ranges, ovf))
code_length_tree_got(got, ovf) ==
    IF ~got.ok
    THEN [rd |-> got.rd, status |-> "none", ranges |-> <<>>, tree |-> <<>>]
    ELSE code_length_tree_ranges(got.rd, ranges_of(got.code_lengths), ovf)
build_code_length_tree(rd, cvec, hclen, ovf) ==
    code_length_tree_got(
        read_code_length_lengths(rd, cvec, hclen + 4, 0, [k \in 1 .. 19 |-> 0]),
        ovf)

\* read_huffman_tree up to the loop: hlit, hdist, hclen and the code-length
\* tree
tree_header_none(rd) ==
    [rd |-> rd, status |-> "none", hlit |-> None, hdist |-> None,
     ranges |-> <<>>, tree |-> <<>>]
tree_header_clt(hlit_, hdist_, clt) ==
    [rd |-> clt.rd, status |-> clt.status, hlit |-> hlit_, hdist |-> hdist_,
     ranges |-> clt.ranges, tree |-> clt.tree]
tree_header_hclen(hlit_, hdist_, hc, cvec, ovf) ==
    IF hc.v = None THEN tree_header_none(hc.rd)
    ELSE tree_header_clt(hlit_, hdist_,
                         build_code_length_tree(hc.rd, cvec, hc.v, ovf))
tree_header_hdist(hlit_, hd, cvec, ovf) ==
    IF hd.v = None THEN tree_header_none(hd.rd)
    ELSE tree_header_hclen(hlit_, hd.v, read_bits(hd.rd, cvec, 4), cvec, ovf)
tree_header_hlit(hl, cvec, ovf) ==
    IF hl.v = None THEN tree_header_none(hl.rd)
    ELSE tree_header_hdist(hl.v, read_bits(hl.rd, cvec, 5), cvec, ovf)
read_tree_header(rd, cvec, ovf) ==
    tree_header_hlit(read_bits(rd, cvec, 5), cvec, ovf)

repeat_base_three(code) == 3

\* the extra bits after a repeat code and what is added to them
repeat_extra_bits(code) == IF code = 16 THEN 2 ELSE IF code = 17 THEN 3 ELSE 7
repeat_base(code) == IF code = 18 THEN 11 ELSE 3

\* alphabet.get((i - 1) as usize): i is a u32, so i - 1 wraps at i = 0 to an
\* index no vector has
get_prev(alphabet, i) ==
    LET index == Sub32(W32(i), W32(1))
    IN  IF index[1] = 0 THEN get(alphabet, index[2])
        ELSE IF index[1] < 32768 THEN get(alphabet, index[1] * 65536 + index[2])
        ELSE None

\* One iteration of the while loop of read_huffman_tree: [rd, ok, alphabet, i]
code_length_none(rd, alphabet, i) ==
    [rd |-> rd, ok |-> FALSE, alphabet |-> alphabet, i |-> i]
\* the repetition, value being the length to repeat
code_length_repeated(rd, alphabet, i, repeat_length, value) ==
    [rd |-> rd, ok |-> TRUE,
     alphabet |-> alphabet \o [k \in 1 .. repeat_length |-> value],
     i |-> i + repeat_length]
\* the branch for a code above 15, x being what read_bits returned. The
\* previous length is the one just pushed from the second repetition on, so
\* only the first get can fail.
code_length_repeat(code, x, alphabet, i, prev) ==
    IF x.v = None THEN code_length_none(x.rd, alphabet, i)
    ELSE IF code = 16 /\ prev = None THEN code_length_none(x.rd, alphabet, i)
    ELSE code_length_repeated(x.rd, alphabet, i, x.v + repeat_base(code),
                              IF code = 16 THEN prev ELSE 0)
\* the body of the loop, c being what code_lengths_root.read returned
code_length_read(c, cvec, alphabet, i) ==
    IF c.v = None THEN code_length_none(c.rd, alphabet, i)
    ELSE IF c.v > 15
    THEN code_length_repeat(c.v, read_bits(c.rd, cvec, repeat_extra_bits(c.v)),
                            alphabet, i, get_prev(alphabet, i))
    ELSE [rd |-> c.rd, ok |-> TRUE, alphabet |-> Append(alphabet, c.v),
          i |-> i + 1]
read_code_length(rd, cvec, code_lengths_root, alphabet, i) ==
    code_length_read(read(code_lengths_root, 1, rd, cvec), cvec, alphabet, i)

\* the range lists of read_huffman_tree after the loop
literals_ranges_of(alphabet, hlit_) == ranges_of(SubSeq(alphabet, 1, hlit_ + 257))

distances_ranges_of(alphabet, hlit_, hdist_) ==
    ranges_of(SubSeq(alphabet, hlit_ + 257 + 1, hlit_ + 257 + hdist_ + 1))

(***************************************************************************)
(* inflate.rs: inflate_huffman_codes                                       *)
(***************************************************************************)
\* code - 254 for the length codes without extra bits
short_length(code) == code - 254

\* (code - 261) / 4: the number of extra bits of a length code 265 ..= 284
length_extra_bits(code) == (code - 261) \div 4

\* a faulty index, without the + 1
length_index_short(code) == Sub32(W32(code), W32(266))

\* ((code - 266) + 1) as usize, in wrapping u32 arithmetic
length_index(code) == Add32(Sub32(W32(code), W32(266)), W32(1))

\* EXTRA_LENGTH_ADDEND[index]: None when the index is out of bounds (a panic)
length_addend(index) ==
    IF index[1] = 0 /\ index[2] < Len(EXTRA_LENGTH_ADDEND)
    THEN EXTRA_LENGTH_ADDEND[index[2] + 1] ELSE None

\* (dist - 2) / 2: the number of extra bits of a distance symbol above 3
dist_extra_bits(dist) == (dist - 2) \div 2

\* EXTRA_DIST_ADDEND[(dist - 4) as usize]: None when out of bounds (a panic)
dist_addend(dist) ==
    IF dist - 4 < Len(EXTRA_DIST_ADDEND) THEN EXTRA_DIST_ADDEND[dist - 4 + 1]
    ELSE None

\* One iteration of the loop of inflate_huffman_codes is a record whose
\* kind is
\*   "literal"  a byte was pushed
\*   "copy"     a back-reference was copied
\*   "stop"     the stop code 256 ended the loop
\*   "noread"   literals_root.read returned None, which ends the loop
\*   "none"     the function returns None
\*   "panic"    an index was out of bounds or an assertion failed
\* and whose locals are None where the iteration did not reach them.
Symbol(kind, rd, out, code, extra_bits, length, dsym, extra_dist, dist) ==
    [kind |-> kind, rd |-> rd, out |-> out, code |-> code,
     extra_bits |-> extra_bits, length |-> length, dsym |-> dsym,
     extra_dist |-> extra_dist, dist |-> dist]

\* out.copy_back_pointer(dist as usize, length as usize), copied being what
\* it did
symbol_copied(rd, code, extra_bits, length, dsym, extra_dist, dist, copied) ==
    Symbol(IF copied.ok THEN "copy" ELSE "panic", rd, copied.cvec, code,
           extra_bits, length, dsym, extra_dist, dist)

symbol_copy(rd, out, code, extra_bits, length, dsym, extra_dist, dist) ==
    symbol_copied(rd, code, extra_bits, length, dsym, extra_dist, dist,
                  copy_back_pointer(out, dist, length))

\* if dist > 3 { ... }, xd being what read_bits returned for the extra bits
symbol_dist_extra(xd, out, code, extra_bits, length, dsym) ==
    IF xd.v = None
    THEN Symbol("none", xd.rd, out, code, extra_bits, length, dsym, None, None)
    ELSE IF dist_addend(dsym) = None
    THEN Symbol("panic", xd.rd, out, code, extra_bits, length, dsym, xd.v, None)
    ELSE symbol_copy(xd.rd, out, code, extra_bits, length, dsym, xd.v,
                     xd.v + dist_addend(dsym))

\* d is what the distance tree, or read_bits_rev(5), returned
symbol_dist(d, cvec, out, code, extra_bits, length) ==
    IF d.v = None
    THEN Symbol("none", d.rd, out, code, extra_bits, length, None, None, None)
    ELSE IF d.v > 3
    THEN symbol_dist_extra(read_bits(d.rd, cvec, dist_extra_bits(d.v)), out,
                           code, extra_bits, length, d.v)
    ELSE symbol_copy(d.rd, out, code, extra_bits, length, d.v, None, d.v)

\* let mut dist = match distances_root { ... }
symbol_length(rd, cvec, use_distance_tree, distances_tree, out, code, extra_bits, length) ==
    symbol_dist(IF use_distance_tree THEN read(distances_tree, 1, rd, cvec)
                ELSE read_bits_rev(rd, cvec, 5),
                cvec, out, code, extra_bits, length)

\* the length of a code in 265 .. 284, xl being what read_bits returned
symbol_length_extra(xl, cvec, use_distance_tree, distances_tree, out, code) ==
    IF xl.v = None
    THEN Symbol("none", xl.rd, out, code, None, None, None, None, None)
    ELSE IF length_addend(length_index(code)) = None
    THEN Symbol("panic", xl.rd, out, code, xl.v, None, None, None, None)
    ELSE symbol_length(xl.rd, cvec, use_distance_tree, distances_tree, out,
                       code, xl.v, xl.v + length_addend(length_index(code)))

\* the body of the loop, c being what literals_root.read returned
symbol_code(c, cvec, use_distance_tree, distances_tree, out) ==
    IF c.v = None
    THEN Symbol("noread", c.rd, out, None, None, None, None, None, None)
    ELSE IF c.v >= 286
    THEN Symbol("none", c.rd, out, c.v, None, None, None, None, None)
    ELSE IF c.v < 256
    THEN Symbol("literal", c.rd, push(out, c.v % 256), c.v, None, None, None,
                None, None)
    ELSE IF c.v = 256
    THEN Symbol("stop", c.rd, out, c.v, None, None, None, None, None)
    ELSE IF c.v < 265
    THEN symbol_length(c.rd, cvec, use_distance_tree, distances_tree, out, c.v,
                       None, short_length(c.v))
    ELSE IF c.v < 285
    THEN symbol_length_extra(read_bits(c.rd, cvec, length_extra_bits(c.v)),
                             cvec, use_distance_tree, distances_tree, out, c.v)
    ELSE symbol_length(c.rd, cvec, use_distance_tree, distances_tree, out, c.v,
                       None, 258)

inflate_symbol(rd, cvec, literals_tree, use_distance_tree, distances_tree, out) ==
    symbol_code(read(literals_tree, 1, rd, cvec), cvec, use_distance_tree,
                distances_tree, out)

(***************************************************************************)
(* gz.rs: constants                                                        *)
(***************************************************************************)
GZIP_MIN_LEN == 40
GZIP_FILESIZE_OFFSET == 4
GZIP_CRC_OFFSET == 8
GZIP_FOOTER_LEN == 8

(***************************************************************************)
(* The state of one call of decompress_gz                                  *)
(***************************************************************************)
VARIABLES
    buffer,              \* the input Buf
    pc,                  \* where the call is
    result,              \* "pending", "Some" (out_buf is returned), "None", "abort"
    out_len,             \* get_uncompressed_len(&buffer)
    crc,                 \* get_crc(&buffer)
    header,              \* the GZHeader
    stream,              \* the GzBitReader
    out_buf,             \* the output Buf
    inflate_ret,         \* what inflate returned: "pending", "Some", "None"
    fixed_tree,          \* inflate: fixed_tree
    last_block,          \* inflate: last_block
    block_format,        \* inflate: block_format
    literals_root,       \* the literal/length tree of the block
    distances_root,      \* the distance tree of the block (Option)
    hlit, hdist,         \* read_huffman_tree: hlit, hdist
    code_lengths_root,   \* read_huffman_tree: the code-length tree
    alphabet, i,         \* read_huffman_tree: the lengths read so far
    tree_ranges,         \* the range lists last given to build_huffman_tree
    sym,                 \* the locals of the last iteration of inflate_huffman_codes
    call,                \* a call of one function on its own: its name and arguments
    ret                  \* what that call returned

vars == <<buffer, pc, result, out_len, crc, header, stream, out_buf, inflate_ret,
          fixed_tree, last_block, block_format, literals_root, distances_root, hlit, hdist,
          code_lengths_root, alphabet, i, tree_ranges, sym, call, ret>>

unit_vars == <<call, ret>>
gz_vars == <<out_len, crc, header>>
block_vars == <<last_block, block_format>>
tree_vars == <<literals_root, distances_root, hlit, hdist, code_lengths_root,
               alphabet, i, tree_ranges>>

NoReader == [iter |-> Iter_new, buf |-> 0, mask |-> 0]
NoTree == <<>>
NoCall == [op |-> ""]
NoSym == [kind |-> "", code |-> None, extra_bits |-> None, length |-> None,
          dsym |-> None, extra_dist |-> None, dist |-> None]

\* the locals of an iteration, without the reader and the buffer
sym_of(r) == [kind |-> r.kind, code |-> r.code, extra_bits |-> r.extra_bits,
              length |-> r.length, dsym |-> r.dsym, extra_dist |-> r.extra_dist,
              dist |-> r.dist]

StartState(input) ==
    /\ buffer = input
    /\ pc = "start"
    /\ result = "pending"
    /\ out_len = <<None, None>>
    /\ crc = <<None, None>>
    /\ header = [ok |-> FALSE]
    /\ stream = NoReader
    /\ out_buf = <<>>
    /\ inflate_ret = "pending"
    /\ fixed_tree = NoTree
    /\ last_block = 0
    /\ block_format = None
    /\ literals_root = [fixed |-> FALSE, tree |-> NoTree]
    /\ distances_root = [some |-> FALSE, tree |-> NoTree]
    /\ hlit = None
    /\ hdist = None
    /\ code_lengths_root = NoTree
    /\ alphabet = <<>>
    /\ i = 0
    /\ tree_ranges = <<>>
    /\ sym = NoSym
    /\ call = NoCall
    /\ ret = None

(***************************************************************************)
(* gz.rs: decompress_gz                                                    *)
(***************************************************************************)
\* decompress_gz, lines 26-28: the length check
CheckLength ==
    /\ pc = "start"
    /\ IF Len(buffer) < GZIP_MIN_LEN
       THEN pc' = "done" /\ result' = "None"
       ELSE pc' = "footer" /\ UNCHANGED result
    /\ UNCHANGED <<buffer, unit_vars, fixed_tree, gz_vars, stream, out_buf,
                   inflate_ret, block_vars, tree_vars, sym>>

\* get_uncompressed_len and get_crc: assert!(buffer.len() > GZIP_MIN_LEN),
\* then the words at len - 4 and len - 8
ReadFooter ==
    /\ pc = "footer"
    /\ IF Len(buffer) > GZIP_MIN_LEN
       THEN /\ out_len' = get_wide(buffer, Len(buffer) - GZIP_FILESIZE_OFFSET)
            /\ crc' = get_wide(buffer, Len(buffer) - GZIP_CRC_OFFSET)
            /\ pc' = "header"
            /\ UNCHANGED result
       ELSE /\ pc' = "done"
            /\ result' = "abort"
            /\ UNCHANGED <<out_len, crc>>
    /\ UNCHANGED <<buffer, unit_vars, fixed_tree, header, stream, out_buf,
                   inflate_ret, block_vars, tree_vars, sym>>

\* decompress_gz, lines 31-32: parse_header and CVec::with_capacity
ParsedHeader(h) ==
    IF h.ok
    THEN header' = h /\ pc' = "reader" /\ UNCHANGED result
    ELSE pc' = "done" /\ result' = "None" /\ UNCHANGED header

ParseHeader ==
    /\ pc = "header"
    /\ ParsedHeader(parse_header(buffer))
    /\ UNCHANGED <<buffer, unit_vars, fixed_tree, out_len, crc, stream,
                   out_buf, inflate_ret, block_vars, tree_vars, sym>>

\* decompress_raw, lines 49-52, and the first line of inflate: the reader
\* over limit_iter(header_len, len - GZIP_FOOTER_LEN); without a first byte
\* decompress_raw returns and out_buf stays empty
MadeReader(g) ==
    /\ stream' = g.rd
    /\ fixed_tree' = IF g.ok THEN build_fixed_huffman_tree.tree ELSE fixed_tree
    /\ pc' = IF g.ok THEN "block" ELSE "crc"

NewReader ==
    /\ pc = "reader"
    /\ MadeReader(GzBitReader_new(
           limit_new(header.header_len, Len(buffer) - GZIP_FOOTER_LEN), buffer))
    /\ UNCHANGED <<buffer, unit_vars, result, gz_vars, out_buf, inflate_ret,
                   block_vars, tree_vars, sym>>

\* inflate returned None: decompress_raw clears out_buf
InflateNone(rd) ==
    /\ stream' = rd
    /\ inflate_ret' = "None"
    /\ out_buf' = <<>>
    /\ pc' = "crc"
    /\ UNCHANGED result

\* a panic
Panic(rd) ==
    /\ stream' = rd
    /\ pc' = "done"
    /\ result' = "abort"
    /\ UNCHANGED <<inflate_ret, out_buf>>

\* a block has been inflated: inflate returns Some(()) after the last one
BlockDone(rd, out) ==
    /\ stream' = rd
    /\ out_buf' = out
    /\ inflate_ret' = IF last_block = 0 THEN inflate_ret ELSE "Some"
    /\ pc' = IF last_block = 0 THEN "block" ELSE "crc"
    /\ UNCHANGED result

(***************************************************************************)
(* inflate.rs: inflate                                                     *)
(***************************************************************************)
\* inflate, lines 191-212: the head of one iteration of the block loop
\* match block_format { ... }, bf being what read_bits(2) returned
BlockFormat(bf) ==
    IF bf.v = None
    THEN InflateNone(bf.rd) /\ UNCHANGED <<block_format, literals_root>>
    ELSE /\ block_format' = bf.v
         /\ IF bf.v = 1
            THEN /\ stream' = bf.rd
                 /\ literals_root' = [fixed |-> TRUE, tree |-> NoTree]
                 /\ pc' = "symbol"
                 /\ UNCHANGED <<result, inflate_ret, out_buf>>
            ELSE IF bf.v = 2
            THEN /\ stream' = bf.rd
                 /\ pc' = "tree"
                 /\ UNCHANGED <<result, inflate_ret, out_buf, literals_root>>
            \* 0: "uncompressed block type, not supported";
            \* 3: "unsupported block type"
            ELSE InflateNone(bf.rd) /\ UNCHANGED literals_root

\* lb is what next_bit returned for last_block
BlockLast(lb) ==
    IF lb.v = None
    THEN InflateNone(lb.rd) /\ UNCHANGED <<block_vars, literals_root>>
    ELSE /\ last_block' = lb.v
         /\ BlockFormat(read_bits(lb.rd, buffer, 2))

BlockHeader ==
    /\ pc = "block"
    /\ BlockLast(next_bit(stream, buffer))
    /\ UNCHANGED <<buffer, unit_vars, fixed_tree, gz_vars, distances_root,
                   hlit, hdist, code_lengths_root, alphabet, i, tree_ranges,
                   sym>>

\* read_huffman_tree, lines 62-72: hlit, hdist, hclen, build_code_length_tree
TreeHeader(t) ==
    /\ tree_ranges' = IF t.status = "none" THEN tree_ranges ELSE <<t.ranges>>
    /\ CASE t.status = "none" ->
              /\ InflateNone(t.rd)
              /\ UNCHANGED <<hlit, hdist, code_lengths_root, alphabet, i>>
         [] t.status = "panic" ->
              /\ Panic(t.rd)
              /\ hlit' = t.hlit
              /\ hdist' = t.hdist
              /\ UNCHANGED <<code_lengths_root, alphabet, i>>
         [] OTHER ->
              /\ stream' = t.rd
              /\ hlit' = t.hlit
              /\ hdist' = t.hdist
              /\ code_lengths_root' = t.tree
              /\ alphabet' = <<>>
              /\ i' = 0
              /\ pc' = "codelen"
              /\ UNCHANGED <<result, inflate_ret, out_buf>>

ReadTreeHeader ==
    /\ pc = "tree"
    /\ \E ovf \in ShiftOverflow : TreeHeader(read_tree_header(stream, buffer, ovf))
    /\ UNCHANGED <<buffer, unit_vars, fixed_tree, gz_vars, block_vars,
                   literals_root, distances_root, sym>>

\* an iteration that leaves the reader where it stood
CodeLength_rewound(r) ==
    IF r.ok
    THEN /\ alphabet' = r.alphabet
         /\ i' = r.i
         /\ UNCHANGED <<stream, pc, result, inflate_ret, out_buf>>
    ELSE InflateNone(r.rd) /\ UNCHANGED <<alphabet, i>>

\* read_huffman_tree, lines 70-98: one iteration of the while loop
CodeLength(r) ==
    IF r.ok
    THEN /\ stream' = r.rd
         /\ alphabet' = r.alphabet
         /\ i' = r.i
         /\ UNCHANGED <<pc, result, inflate_ret, out_buf>>
    ELSE InflateNone(r.rd) /\ UNCHANGED <<alphabet, i>>

ReadCodeLength ==
    /\ pc = "codelen"
    /\ i < hlit + hdist + 258
    /\ CodeLength(read_code_length(stream, buffer, code_lengths_root, alphabet, i))
    /\ UNCHANGED <<buffer, unit_vars, fixed_tree, gz_vars, block_vars,
                   literals_root, distances_root, hlit, hdist,
                   code_lengths_root, tree_ranges, sym>>

\* read_huffman_tree, lines 100-126: the two range lists and the two trees
\* lit and dst are what build_huffman_tree made of the two range lists (the
\* second tree is not built when the first call panicked)
BuiltTrees(literals_ranges, distances_ranges, lit, dst) ==
    /\ tree_ranges' = IF lit.ok THEN <<literals_ranges, distances_ranges>>
                      ELSE <<literals_ranges>>
    /\ IF lit.ok /\ dst.ok
       THEN /\ literals_root' = [fixed |-> FALSE, tree |-> lit.tree]
            /\ distances_root' = [some |-> TRUE, tree |-> dst.tree]
            /\ pc' = "symbol"
            /\ UNCHANGED <<stream, result, inflate_ret, out_buf>>
       ELSE /\ Panic(stream)
            /\ UNCHANGED <<literals_root, distances_root>>

RangesBuilt(literals_ranges, distances_ranges, ovf) ==
    BuiltTrees(literals_ranges, distances_ranges,
               build_huffman_tree(literals_ranges, ovf),
               build_huffman_tree(distances_ranges, ovf))

BuildTrees ==
    /\ pc = "codelen"
    /\ ~(i < hlit + hdist + 258)
    /\ \E ovf \in ShiftOverflow :
         RangesBuilt(literals_ranges_of(alphabet, hlit),
                     distances_ranges_of(alphabet, hlit, hdist), ovf)
    /\ UNCHANGED <<buffer, unit_vars, fixed_tree, gz_vars, block_vars, hlit,
                   hdist, code_lengths_root, alphabet, i, sym>>

\* inflate_huffman_codes, lines 146-181: one iteration of the loop, and what
\* inflate does when the function returns
Inflated(r) ==
    /\ sym' = sym_of(r)
    /\ CASE r.kind \in {"literal", "copy"} ->
              /\ stream' = r.rd
              /\ out_buf' = r.out
              /\ UNCHANGED <<pc, result, inflate_ret>>
         [] r.kind \in {"stop", "noread"} -> BlockDone(r.rd, r.out)
         [] r.kind = "none" -> InflateNone(r.rd)
         [] OTHER -> Panic(r.rd)

InflateSymbol ==
    /\ pc = "symbol"
    /\ Inflated(inflate_symbol(stream, buffer,
                               IF literals_root.fixed THEN fixed_tree
                               ELSE literals_root.tree,
                               ~literals_root.fixed, distances_root.tree, out_buf))
    /\ UNCHANGED <<buffer, unit_vars, fixed_tree, gz_vars, block_vars,
                   tree_vars>>

(***************************************************************************)
(* gz.rs: check_crc and the result of decompress_gz                        *)
(***************************************************************************)
\* a faulty check_crc, which accepts every buffer
check_crc_accepting(cvec, footer_crc) == TRUE

check_crc(cvec, footer_crc) == crc32_sum(cvec) = footer_crc

CheckCrc ==
    /\ pc = "crc"
    /\ result' = IF check_crc(out_buf, crc) THEN "Some" ELSE "None"
    /\ pc' = "done"
    /\ UNCHANGED <<buffer, unit_vars, fixed_tree, gz_vars, stream, out_buf,
                   inflate_ret, block_vars, tree_vars, sym>>

(***************************************************************************)
(* The inputs: gzip members written with an encoder that follows RFC 1951  *)
(* and RFC 1952 (not the decoder above)                                    *)
(***************************************************************************)
LsbBits(v, n) == [k \in 1 .. n |-> (v \div Pow2(k - 1)) % 2]
MsbBits(v, n) == [k \in 1 .. n |-> (v \div Pow2(n - k)) % 2]

\* bits to bytes, the first bit in the least significant position
Pack(bits) ==
    [k \in 1 .. ((Len(bits) + 7) \div 8) |->
        LET bit(j) == IF 8 * (k - 1) + j + 1 <= Len(bits)
                      THEN bits[8 * (k - 1) + j + 1] ELSE 0
        IN  bit(0) + 2 * bit(1) + 4 * bit(2) + 8 * bit(3) + 16 * bit(4)
            + 32 * bit(5) + 64 * bit(6) + 128 * bit(7)]

\* RFC 1951 3.2.6: the fixed literal/length code of a symbol
RfcFixedCode(s) ==
    IF s <= 143 THEN MsbBits(48 + s, 8)
    ELSE IF s <= 255 THEN MsbBits(400 + (s - 144), 9)
    ELSE IF s <= 279 THEN MsbBits(s - 256, 7)
    ELSE MsbBits(192 + (s - 280), 8)

\* RFC 1951 3.2.5: extra bits and base of the length codes 257 .. 285
RfcLengthExtra(s) ==
    IF s <= 264 \/ s = 285 THEN 0 ELSE (s - 261) \div 4
RfcLengthBases ==
    <<3, 4, 5, 6, 7, 8, 9, 10, 11, 13, 15, 17, 19, 23, 27, 31, 35, 43, 51, 59,
      67, 83, 99, 115, 131, 163, 195, 227, 258>>
RfcLength(s, e) == RfcLengthBases[s - 256] + e

\* RFC 1951 3.2.5: extra bits and base of the distance codes 0 .. 29
RfcDistExtra(d) == IF d <= 1 THEN 0 ELSE (d - 2) \div 2
RfcDistBases ==
    <<1, 2, 3, 4, 5, 7, 9, 13, 17, 25, 33, 49, 65, 97, 129, 193, 257, 385, 513,
      769, 1025, 1537, 2049, 3073, 4097, 6145, 8193, 12289, 16385, 24577>>
RfcDist(d, e) == RfcDistBases[d + 1] + e

Ones(n) == Pow2(n) - 1

\* the tokens of a fixed block
Lit(b) == RfcFixedCode(b)
Eob == RfcFixedCode(256)
\* a back-reference: length symbol s with extra e, then five distance bits d
\* and the extra bits of d (14 bits for the unassigned 30 and 31)
Ref(s, e, d, de) ==
    RfcFixedCode(s) \o LsbBits(e, RfcLengthExtra(s)) \o MsbBits(d, 5)
    \o LsbBits(de, RfcDistExtra(d))
FixedHead(bfinal) == <<bfinal, 1, 0>>

\* the bytes of a u32 <<hi, lo>>, least significant first
Le32(w) == <<w[2] % 256, w[2] \div 256, w[1] % 256, w[1] \div 256>>

\* the header of test_complex_header (33 bytes) and the one of
\* test_basic_header with mtime 0 (10 bytes)
ComplexHeader ==
    <<31, 139, 8, 31, 18, 52, 86, 120, 0, 7, 65, 112, 0, 4, 18, 52, 86, 120,
      65, 66, 67, 68, 69, 0, 65, 65, 65, 65, 65, 65, 0, 0, 1>>
BasicHeader == <<31, 139, 8, 0, 0, 0, 0, 0, 0, 3>>

Member(hdr, payload, crc32, isize) == hdr \o payload \o Le32(crc32) \o Le32(W32(isize))

\* a member whose footer is right for the output `expected`
GoodMember(payload, expected) ==
    Member(ComplexHeader, payload, crc32_sum(expected), Len(expected))

Repeat(b, n) == [k \in 1 .. n |-> b]
Cycle(bytes, n) == [k \in 1 .. n |-> bytes[((k - 1) % Len(bytes)) + 1]]

\* a token of a fixed block: a literal or a back-reference
LitTok(b) == [t |-> "lit", b |-> b]
RefTok(s, e, d, de) == [t |-> "ref", s |-> s, e |-> e, d |-> d, de |-> de]

RECURSIVE TokenBits(_)
TokenBits(tokens) ==
    IF tokens = <<>> THEN <<>>
    ELSE LET tk == Head(tokens)
         IN  (IF tk.t = "lit" THEN Lit(tk.b) ELSE Ref(tk.s, tk.e, tk.d, tk.de))
             \o TokenBits(Tail(tokens))

\* RFC 1951 3.2.3: what the tokens stand for; not ok when a distance symbol
\* is unassigned or a distance reaches before the start of the output
RfcCopy(out, dist, length) ==
    out \o [k \in 1 .. length |-> out[Len(out) - dist + ((k - 1) % dist) + 1]]
RECURSIVE RfcExpandFrom(_, _)
RfcExpandFrom(out, tokens) ==
    IF tokens = <<>> THEN [ok |-> TRUE, out |-> out]
    ELSE LET tk == Head(tokens)
         IN  IF tk.t = "lit"
             THEN RfcExpandFrom(Append(out, tk.b), Tail(tokens))
             ELSE IF tk.d > 29 \/ RfcDist(tk.d, tk.de) > Len(out)
             THEN [ok |-> FALSE, out |-> out]
             ELSE RfcExpandFrom(RfcCopy(out, RfcDist(tk.d, tk.de),
                                        RfcLength(tk.s, tk.e)), Tail(tokens))
RfcExpand(tokens) == RfcExpandFrom(<<>>, tokens)

\* the member of one final fixed block holding the tokens; the footer is
\* right when the block is valid, and zero otherwise
FixedPayload(tokens) == Pack(FixedHead(1) \o TokenBits(tokens) \o Eob)
FixedMember(tokens) ==
    LET x == RfcExpand(tokens)
    IN  IF x.ok THEN GoodMember(FixedPayload(tokens), x.out)
        ELSE Member(ComplexHeader, FixedPayload(tokens), <<0, 0>>, 0)

\* bounds of the input families
MaxShortLen == 42        \* ShortInputs: members of 0 .. MaxShortLen bytes
MaxHistory == 2          \* DistanceInputs: literals before the back-reference
MaxTruncated == 3        \* TruncatedInputs: literals before the stream ends

\* a literal 'a' and one back-reference at distance 1, for every length
\* symbol and every value of its extra bits
LengthTokens(s, e) == <<LitTok(97), RefTok(s, e, 0, 0)>>
LengthPairs ==
    { p \in (257 .. 285) \X (0 .. 31) : p[2] <= Ones(RfcLengthExtra(p[1])) }
LengthInputs == { FixedMember(LengthTokens(p[1], p[2])) : p \in LengthPairs }

\* the five-bit distance symbols, each with the extra bits all 0 and all 1
DistPairs ==
    { p \in (0 .. 31) \X {0, 1} : p[2] = 0 \/ RfcDistExtra(p[1]) > 0 }
DistExtra(p) == p[2] * Ones(RfcDistExtra(p[1]))

\* 1 .. MaxHistory literals and one back-reference of length 3, for every
\* five-bit distance symbol: most reach before the start of the output
History(h) == [k \in 1 .. h |-> LitTok(96 + k)]
ShortHistoryTokens(h, d, de) == Append(History(h), RefTok(257, 0, d, de))
\* the same after 261 bytes of output, where the distances up to 261 are valid
LongHistoryTokens(d, de) ==
    <<LitTok(97), LitTok(98), LitTok(99), RefTok(285, 0, 2, 0),
      RefTok(258, 0, d, de)>>
DistanceInputs ==
    { FixedMember(ShortHistoryTokens(h, p[1], DistExtra(p))) :
        h \in 1 .. MaxHistory, p \in DistPairs }
    \cup { FixedMember(LongHistoryTokens(p[1], DistExtra(p))) : p \in DistPairs }
    \cup { FixedMember(<<RefTok(257, 0, 0, 0)>>) }

\* a fixed block that stops after 0 .. MaxTruncated literals, without the
\* stop code, as the last block and as a block that another should follow
TruncatedPayload(bfinal, j) == Pack(FixedHead(bfinal) \o TokenBits(History(j)))
TruncatedInputs ==
    { Member(ComplexHeader, TruncatedPayload(bfinal, j),
             crc32_sum([k \in 1 .. j |-> 96 + k]), j) :
        bfinal \in {0, 1}, j \in 0 .. MaxTruncated }

\* dynamic blocks, bytes of the payload
\* HLIT 1, HDIST 0; 'a' -> 0, 256 -> 10, 257 -> 11, distance 0 -> 0; the
\* data is 'a', 257 with distance symbol 0, the stop code
DynamicAaaa == <<13, 192, 129, 0, 0, 0, 0, 128, 32, 214, 252, 37, 62, 11>>
\* 'a' -> 0 and 256 -> 10 only (an incomplete code); the data is 'a', 256
DynamicA == <<5, 192, 1, 9, 0, 0, 0, 128, 160, 173, 254, 63, 145, 2>>
\* the same tree; the data is 'a' and then the unassigned code 11
DynamicAbsent == <<5, 192, 1, 9, 0, 0, 0, 128, 160, 173, 254, 63, 145, 6, 0>>
\* the code-length code has the lengths 1, 1, 1 for the symbols 16, 17, 18
DynamicOver111 == <<5, 0, 146, 0>>
\* the code-length code has the lengths 1, 1, 2 for the symbols 16, 17, 18
DynamicOver112 == <<5, 0, 18, 1>>
\* the code-length code has the lengths 2, 1, 1 for the symbols 16, 17, 18
DynamicOver211 == <<5, 0, 148, 0, 0, 0, 0, 0, 0>>
\* a valid code-length code; the literals 0, 1, 2 all get the length 1
DynamicOverLit == <<5, 192, 129, 0, 0, 0, 0, 0, 16, 252, 87, 3>>
\* the first code length is symbol 16, a repeat of a length that is not there
DynamicRepeatFirst == <<5, 0, 2, 36, 0, 0>>
\* HLIT 0, HDIST 0; the lengths are 3, symbol 16 (three times 3), symbol 17
\* (ten zeros), symbol 18 twice (138 and 104 zeros), 1 for 256 and 1 for the
\* distance 0; the data is 2, 0, the stop code
DynamicRepeat == <<5, 192, 55, 1, 0, 0, 0, 2, 32, 199, 223, 191, 46, 44, 0>>
\* the same, but the last length is symbol 18 (eleven zeros): ten lengths
\* more than HLIT + HDIST + 258
DynamicOvershoot == <<5, 192, 55, 1, 0, 0, 0, 2, 32, 199, 223, 191, 46, 1, 22>>

Prefixes(bytes) == { SubSeq(bytes, 1, k) : k \in 0 .. Len(bytes) - 1 }

\* payloads that are no valid DEFLATE stream
StoredA == <<1, 1, 0, 254, 255, 97>>      \* a stored block holding "a"
BadPayloads ==
    { <<>>,
      Pack(<<1, 1, 1>>),                           \* the reserved block type
      StoredA,
      <<1, 0, 0, 255, 255>>,                       \* an empty stored block
      Pack(FixedHead(1) \o RfcFixedCode(286)),
      Pack(FixedHead(1) \o Lit(97) \o RfcFixedCode(287)),
      DynamicOver111, DynamicOver112, DynamicOver211, DynamicOverLit,
      DynamicRepeatFirst, DynamicAbsent }
    \cup Prefixes(DynamicAaaa)
    \cup Prefixes(FixedPayload(LengthTokens(284, 30)))
\* the footer CRCs tried with them: zero, the CRC of "a", and another
BadCrcs == {<<0, 0>>, crc32_sum(<<97>>), <<4660, 22136>>}
BadInputs ==
    { Member(ComplexHeader, payload, c, 0) : payload \in BadPayloads, c \in BadCrcs }

\* valid members other than one fixed block
TwoBlocks ==
    Pack(FixedHead(0) \o Lit(97) \o Eob \o FixedHead(1) \o Lit(98) \o Eob)
GoodInputs ==
    { GoodMember(DynamicAaaa, Repeat(97, 4)),
      GoodMember(DynamicA, <<97>>),
      GoodMember(TwoBlocks, <<97, 98>>),
      GoodMember(Pack(FixedHead(0) \o Lit(97) \o Eob) \o DynamicAaaa,
                 Repeat(97, 5)),
      GoodMember(StoredA, <<97>>),
      GoodMember(DynamicRepeat, <<2, 0>>),
      GoodMember(DynamicOvershoot, <<2, 0>>) }

\* the first n bytes of: the basic header, an empty final fixed block
\* (03 00), zeros (the footer of the empty output is eight zeros)
ZeroPadded(n) ==
    [k \in 1 .. n |-> IF k <= 10 THEN BasicHeader[k] ELSE IF k = 11 THEN 3 ELSE 0]
Member20 == ZeroPadded(20)
ShortInputs == { ZeroPadded(n) : n \in 0 .. MaxShortLen }

\* members of 41 bytes whose header parse_header refuses: a wrong magic
\* number, another compression method
HeaderInputs ==
    { [ZeroPadded(41) EXCEPT ![1] = 32], [ZeroPadded(41) EXCEPT ![2] = 140],
      [ZeroPadded(41) EXCEPT ![3] = 7] }

\* a header whose file name has no terminator before the footer
UnterminatedName ==
    <<31, 139, 8, 8, 0, 0, 0, 0, 0, 3>> \o Repeat(65, 23) \o Repeat(0, 8)

\* one bit of the footer CRC changed: bit k of the u32 at offset N - 8
FlipCrcBit(input, k) ==
    [input EXCEPT ![Len(input) - 7 + (k \div 8)] =
        BitXor(input[Len(input) - 7 + (k \div 8)], Pow2(k % 8))]
FooterCrcBits == 0 .. 31
\* members that decode, and every single-bit change of their footer CRC
FlipBases ==
    { FixedMember(LengthTokens(261, 0)),
      GoodMember(DynamicAaaa, Repeat(97, 4)),
      GoodMember(TwoBlocks, <<97, 98>>),
      ZeroPadded(41),
      UnterminatedName }
FlipInputs == { FlipCrcBit(b, k) : b \in FlipBases, k \in FooterCrcBits }

\* members right in everything but ISIZE: the output "a" with the sizes 0, 2
\* and 2^32 - 1, the empty output with the size 1
WrongSizeInputs ==
    { Member(ComplexHeader, FixedPayload(<<LitTok(97)>>), crc32_sum(<<97>>), 0),
      Member(ComplexHeader, FixedPayload(<<LitTok(97)>>), crc32_sum(<<97>>), 2),
      ComplexHeader \o FixedPayload(<<LitTok(97)>>) \o Le32(crc32_sum(<<97>>))
          \o <<255, 255, 255, 255>>,
      Member(ComplexHeader, FixedPayload(<<>>), <<0, 0>>, 1) }

Inputs ==
    LengthInputs \cup DistanceInputs \cup TruncatedInputs \cup BadInputs
    \cup GoodInputs \cup ShortInputs \cup HeaderInputs \cup FlipBases
    \cup FlipInputs \cup WrongSizeInputs

(***************************************************************************)
(* The specification: one call of decompress_gz on any of the inputs       *)
(***************************************************************************)
Init == \E input \in Inputs : StartState(input)

Next ==
    \/ CheckLength
    \/ ReadFooter
    \/ ParseHeader
    \/ NewReader
    \/ BlockHeader
    \/ ReadTreeHeader
    \/ ReadCodeLength
    \/ BuildTrees
    \/ InflateSymbol
    \/ CheckCrc

Spec == Init /\ [][Next]_vars

\* decompress_gz is one sequential call: a step that can be taken is taken
\* (weak fairness of every action).  From parse_header on an action is
\* enabled by its pc alone, the branches of its body covering every case,
\* and its weak fairness is written with pc in place of ENABLED.
Decoding ==
    pc \in {"header", "reader", "block", "tree", "codelen", "symbol", "crc"}
FairSpec ==
    /\ Spec
    /\ WF_vars(CheckLength)
    /\ WF_vars(ReadFooter)
    /\ ([]<>~Decoding \/ []<><<Next>>_vars)

(***************************************************************************)
(* The functions on their own: one call of a function on small arguments.  *)
(* pc names the function; call holds the arguments and ret what the call   *)
(* returned.                                                               *)
(***************************************************************************)
UnitStart(where, input, rd, out) ==
    /\ buffer = input
    /\ stream = rd
    /\ pc = where
    /\ result = "pending"
    /\ out_len = <<None, None>>
    /\ crc = <<None, None>>
    /\ header = [ok |-> FALSE]
    /\ out_buf = out
    /\ inflate_ret = "pending"
    /\ fixed_tree = NoTree
    /\ last_block = 0
    /\ block_format = None
    /\ literals_root = [fixed |-> FALSE, tree |-> NoTree]
    /\ distances_root = [some |-> FALSE, tree |-> NoTree]
    /\ hlit = None
    /\ hdist = None
    /\ code_lengths_root = NoTree
    /\ alphabet = <<>>
    /\ i = 0
    /\ tree_ranges = <<>>
    /\ sym = NoSym
    /\ call = NoCall
    /\ ret = None

program_vars ==
    <<header, out_len, crc, inflate_ret, fixed_tree, last_block, block_format,
      literals_root, distances_root, hlit, hdist, code_lengths_root, alphabet,
      i, sym>>

\* bounds of the arguments
MaxCvec == 3             \* CopyInputs: bytes in the buffer before the copy
MaxCopy == 5             \* CopyBackPointer: the largest length

\* the buffers copy_back_pointer is called on
CopyBytes == {97, 98, 99}
CopyInputs == UNION { [1 .. n -> CopyBytes] : n \in 1 .. MaxCvec }

\* what a subtraction that goes below 0 does: it panics where the build
\* checks overflow, and wraps to a large usize elsewhere
SubOverflow == {"panic", "wrap"}

\* cvec.rs, copy_back_pointer on out_buf; c is what the loop made of it
CopiedBack(c, distance, length, ovf) ==
    /\ call' = [op |-> "copy_back_pointer", cvec |-> out_buf,
                distance |-> distance, length |-> length]
    /\ IF c.ok /\ ~(BackPtrStart(Len(out_buf), distance) < 0 /\ ovf = "panic")
       THEN out_buf' = c.cvec /\ pc' = "done" /\ result' = "Some"
       ELSE pc' = "done" /\ result' = "abort" /\ UNCHANGED out_buf

CopyBackPointer ==
    /\ pc = "copy_back_pointer"
    /\ \E distance \in 0 .. Len(out_buf), length \in 0 .. MaxCopy,
          ovf \in SubOverflow :
         CopiedBack(copy_back_pointer(out_buf, distance, length), distance,
                    length, ovf)
    /\ UNCHANGED <<buffer, stream, tree_ranges, ret, program_vars>>

\* the optional fields of the headers of the tests of header.rs: FEXTRA
\* "Ap" with four bytes, FNAME "ABCDE", FCOMMENT "AAAAAA", FHCRC 00 01
ExtraField == <<65, 112, 0, 4, 18, 52, 86, 120>>
NameField == <<65, 66, 67, 68, 69, 0>>
CommentField == <<65, 65, 65, 65, 65, 65, 0>>
HcrcField == <<0, 1>>
\* RFC 1952 2.3: a header with the given flag byte and fields
HeaderWith(flags, mtime, xfl, os, extra, name, comment, hcrc) ==
    <<31, 139, 8, flags>> \o mtime \o <<xfl, os>>
    \o (IF (flags \div 4) % 2 = 1 THEN extra ELSE <<>>)
    \o (IF (flags \div 8) % 2 = 1 THEN name ELSE <<>>)
    \o (IF (flags \div 16) % 2 = 1 THEN comment ELSE <<>>)
    \o (IF (flags \div 2) % 2 = 1 THEN hcrc ELSE <<>>)
HeaderOf(flags) ==
    HeaderWith(flags, <<18, 52, 86, 120>>, 0, 7, ExtraField, NameField,
               CommentField, HcrcField)
\* the headers of test_basic_header and test_partial_header
BasicTestHeader == HeaderOf(0)
PartialHeader == HeaderOf(27)

\* every flag byte with the reserved bits clear, and some with them set
HeaderFlags == (0 .. 31) \cup {32, 64, 128, 224, 255}
\* a header, its first bytes only, and the header followed by two bytes
Cuts(bytes) == { SubSeq(bytes, 1, k) : k \in 0 .. Len(bytes) } \cup { bytes \o <<3, 0>> }
\* headers with other values in the fixed part and in the fields: an FEXTRA
\* of length 0 and one announcing 260 bytes, an id, a name and a comment that
\* are not UTF-8, a name and a comment of two-byte characters, and an empty name
OtherHeaders ==
    { HeaderWith(f, mt, 2, 255, ExtraField, NameField, CommentField, HcrcField) :
        f \in {0, 31}, mt \in {<<0, 0, 0, 0>>, <<255, 255, 255, 255>>, <<1, 2, 3, 4>>} }
    \cup { HeaderWith(31, <<1, 2, 3, 4>>, 4, 3, x, n, c, <<255, 254>>) :
             x \in {<<65, 112, 0, 0>>, <<65, 112, 1, 4, 9, 9, 9, 9>>, <<255, 112, 0, 1, 9>>},
             n \in {NameField, <<0>>, <<65, 255, 0>>, <<195, 169, 0>>},
             c \in {CommentField, <<128, 0>>, <<195, 169, 0>>} }
\* the first three bytes changed
WrongStart(bytes) ==
    { [bytes EXCEPT ![1] = v] : v \in {0, 30, 139, 255} }
    \cup { [bytes EXCEPT ![2] = v] : v \in {0, 31, 138, 140} }
    \cup { [bytes EXCEPT ![3] = v] : v \in {0, 7, 9, 255} }
    \cup { [bytes EXCEPT ![1] = 139, ![2] = 31] }
HeaderBuffers ==
    UNION { Cuts(HeaderOf(f)) : f \in HeaderFlags }
    \cup UNION { Cuts(h) : h \in OtherHeaders }
    \cup UNION { WrongStart(HeaderOf(f) \o <<3, 0>>) : f \in {0, 8, 31, 255} }

\* header.rs, parse_header on the buffer
ParseHeaderCall ==
    /\ pc = "parse_header"
    /\ call' = [op |-> "parse_header"]
    /\ header' = parse_header(buffer)
    /\ pc' = "done"
    /\ UNCHANGED <<buffer, stream, out_buf, result, tree_ranges, ret, out_len,
                   crc, inflate_ret, fixed_tree, block_vars, literals_root,
                   distances_root, hlit, hdist, code_lengths_root, alphabet, i,
                   sym>>

(***************************************************************************)
(* gz_reader.rs: the reader called on its own.  call.pos and call.next     *)
(* count the bits of the buffer consumed before and after the call.        *)
(***************************************************************************)
U32_BITS == 32           \* the width of the value read_bits returns
MaxOverrun == 2          \* calls of Iter::next past the end of the buffer

ReaderInputs ==
    {<<>>, <<1, 2, 3, 4>>, <<255>>, <<165, 90, 195, 60, 129>>,
     <<255, 255, 255, 255>>}
\* the counts read_bits_rev and the second read are called with
ReadCounts == {0, 1, 3, 8, 9, 17, 31, 32}

\* GzBitReader::new(bytes.iter())
ReaderNew ==
    /\ pc = "GzBitReader_new"
    /\ stream' = GzBitReader_new(Iter_new, buffer).rd
    /\ call' = [op |-> "new", count |-> 0, from |-> stream, pos |-> 0,
                next |-> 0]
    /\ IF GzBitReader_new(Iter_new, buffer).ok
       THEN pc' = "GzBitReader" /\ UNCHANGED result
       ELSE pc' = "done" /\ result' = "None"
    /\ UNCHANGED <<buffer, out_buf, tree_ranges, ret, program_vars>>

\* a call on the reader returned r = [rd, v]
ReaderCalled(op, count, r) ==
    /\ call' = [op |-> op, count |-> count, from |-> stream,
                pos |-> call.next,
                next |-> Min(call.next + count, 8 * Len(buffer))]
    /\ stream' = r.rd
    /\ ret' = r.v
    /\ UNCHANGED <<buffer, pc, result, out_buf, tree_ranges, program_vars>>

ReaderReady ==
    /\ pc = "GzBitReader"
    /\ stream.iter.index < Len(buffer) + MaxOverrun

NextBit ==
    /\ ReaderReady
    /\ ReaderCalled("next_bit", 1, next_bit(stream, buffer))

ReadBits ==
    /\ ReaderReady
    /\ \E count \in 0 .. U32_BITS :
         ReaderCalled("read_bits", count, read_bits_u32(stream, buffer, count))

ReadBitsRev ==
    /\ ReaderReady
    /\ \E count \in ReadCounts :
         ReaderCalled("read_bits_rev", count,
                      read_bits_rev_u32(stream, buffer, count))

(***************************************************************************)
(* crc32.rs: sum called on its own                                         *)
(***************************************************************************)
CheckString == <<49, 50, 51, 52, 53, 54, 55, 56, 57>>      \* "123456789"
CrcInputs ==
    {<<>>, CheckString, <<0, 0, 0, 0>>, <<255, 255, 255, 255>>, <<97, 98, 99>>}
    \cup { <<b>> : b \in 0 .. 255 }
    \cup { <<a, b>> : a \in {0, 97, 255}, b \in {0, 1, 128, 255} }

CrcSum ==
    /\ pc = "crc32_sum"
    /\ call' = [op |-> "crc32_sum"]
    /\ ret' = crc32_sum(buffer)
    /\ pc' = "done"
    /\ UNCHANGED <<buffer, stream, out_buf, result, tree_ranges, program_vars>>

(***************************************************************************)
(* huffman.rs: the code table of build_huffman_tree on its own             *)
(***************************************************************************)
MaxSymbols == 4          \* RangeLists: symbols of the generated alphabets
MaxBits == 3             \* RangeLists: their largest bit length

\* the ranges of the test of count_bitlengths
TestRanges ==
    <<HuffmanRange(1, 4), HuffmanRange(4, 6), HuffmanRange(6, 4),
      HuffmanRange(14, 5), HuffmanRange(18, 6), HuffmanRange(21, 4),
      HuffmanRange(26, 6)>>
\* range lists as the callers build them: each range ends after the one
\* before it
RangeLists ==
    {TestRanges, FIXED_TREE_RANGES}
    \cup { ranges_of(lengths) :
             lengths \in UNION { [1 .. n -> 0 .. MaxBits] : n \in 1 .. MaxSymbols } }

\* build_huffman_tree up to the code table
CodeTable ==
    /\ pc = "build_huffman_tree"
    /\ \E ranges \in RangeLists :
         /\ call' = [op |-> "build_huffman_tree", ranges |-> ranges,
                     bl_count |-> count_bitlengths(ranges,
                                      max_bit_length_of(ranges)),
                     next_code |-> compute_first_codes(
                                      count_bitlengths(ranges,
                                          max_bit_length_of(ranges)))]
         /\ ret' = compute_code_table(
                       compute_first_codes(
                           count_bitlengths(ranges, max_bit_length_of(ranges))),
                       ranges)
    /\ pc' = "done"
    /\ UNCHANGED <<buffer, stream, out_buf, result, tree_ranges, program_vars>>

\* HuffmanNode::read on the tree build_huffman_tree returns, the reader
\* standing `skip` bits into the stream: one-byte streams with every start
\* of MaxBits + 1 bits for the short range lists, two-byte streams for the
\* two long lists
DecodeInputs ==
    {<<lo>> : lo \in 0 .. Pow2(MaxBits + 1) - 1}
    \cup {<<lo, hi>> : lo \in {0, 3, 18, 35, 200, 255}, hi \in {0, 1, 3}}
DecodeRanges(input) ==
    IF Len(input) = 1
    THEN { ranges_of(lengths) :
             lengths \in UNION { [1 .. n -> 0 .. MaxBits] :
                                   n \in 1 .. MaxSymbols - 1 } }
    ELSE {TestRanges, FIXED_TREE_RANGES}
TreeRead ==
    /\ pc = "HuffmanNode_read"
    /\ \E ranges \in DecodeRanges(buffer), skip \in 0 .. 1,
          ovf \in ShiftOverflow :
         LET built == build_huffman_tree(ranges, ovf)
             from == read_bits(GzBitReader_new(Iter_new, buffer).rd, buffer,
                               skip).rd
         IN  IF built.ok
             THEN LET r == read(built.tree, 1, from, buffer)
                  IN  /\ call' = [op |-> "read", ranges |-> ranges,
                                  from |-> from]
                      /\ stream' = r.rd
                      /\ ret' = r.v
                      /\ result' = IF r.v = None THEN "None" ELSE "Some"
             ELSE /\ call' = [op |-> "read", ranges |-> ranges,
                              from |-> from]
                  /\ stream' = from
                  /\ ret' = None
                  /\ result' = "abort"
    /\ pc' = "done"
    /\ UNCHANGED <<buffer, out_buf, tree_ranges, program_vars>>

UnitInit ==
    \/ \E out \in CopyInputs : UnitStart("copy_back_pointer", <<>>, NoReader, out)
    \/ \E input \in HeaderBuffers : UnitStart("parse_header", input, NoReader, <<>>)
    \/ \E input \in ReaderInputs :
         UnitStart("GzBitReader_new", input, NoReader, <<>>)
    \/ \E input \in CrcInputs : UnitStart("crc32_sum", input, NoReader, <<>>)
    \/ UnitStart("build_huffman_tree", <<>>, NoReader, <<>>)
    \/ \E input \in DecodeInputs :
         UnitStart("HuffmanNode_read", input, NoReader, <<>>)

UnitNext ==
    \/ CopyBackPointer
    \/ ParseHeaderCall
    \/ ReaderNew
    \/ NextBit
    \/ ReadBits
    \/ ReadBitsRev
    \/ CrcSum
    \/ CodeTable
    \/ TreeRead

UnitSpec == UnitInit /\ [][UnitNext]_vars

(***************************************************************************)
(* The properties                                                          *)
(***************************************************************************)
Done == pc = "done"
Returned == Done /\ result = "Some"       \* out_buf is what the caller gets
Failed == Done /\ result = "None"         \* failure, and no output
Aborted == Done /\ result = "abort"       \* a panic: nothing is returned

\* the little-endian u32 at offset N - 8 of the input, as <<hi16, lo16>>
FooterCrcOf(input) ==
    <<input[Len(input) - 5] + 256 * input[Len(input) - 4],
      input[Len(input) - 7] + 256 * input[Len(input) - 6]>>

\* C1: decompress_gz returns an output buffer only if the CRC-32 of that
\* buffer equals the footer CRC, the little-endian u32 at offset N - 8; and
\* where an input makes it return an output (every member of FlipBases
\* does), the input with any single bit of those four bytes changed makes
\* it return failure.
C1_CrcChecked ==
    /\ Returned => crc32_sum(out_buf) = FooterCrcOf(buffer)
    /\ (Done /\ buffer \in FlipBases) => result = "Some"
    /\ (Done /\ buffer \in FlipInputs) => result = "None"

\* an output of eight bytes has been returned
C1_Witness == Returned /\ out_buf = Repeat(97, 8)

\* C2: if the payload cannot be inflated (no reader could be made over
\* [header_len, N - 8), or inflate returned failure) decompress_gz returns
\* failure and no output, whatever the footer CRC is: an output is returned
\* only after inflate returned success.
C2_InflateFailureFails == Returned => inflate_ret = "Some"

\* C3: the symbol loop ends successfully only by decoding symbol 256: when
\* the read of a literal/length symbol finds the stream exhausted or an
\* absent child, inflate returns failure: it does not return success while
\* that read is the last thing the loop did.
C3_LoopEndsAtStop == sym.kind = "noread" => inflate_ret # "Some"

\* the length check of decompress_gz returned failure: nothing was read
LengthRejected == Failed /\ crc = <<None, None>>

\* C4: decompress_gz rejects an input because of its length exactly when N
\* is below 18; an input with N >= 18 ends in an output or a failure, never
\* in an aborted assertion; the 20-byte member of an empty fixed block
\* decodes to the empty output.
C4_LengthRejection ==
    /\ Done => (LengthRejected <=> Len(buffer) < 18)
    /\ Len(buffer) >= 18 => ~Aborted
    /\ (Done /\ buffer = Member20) => (result = "Some" /\ out_buf = <<>>)

\* the payload of a member with the complex header
PayloadOf(input) ==
    SubSeq(input, Len(ComplexHeader) + 1, Len(input) - GZIP_FOOTER_LEN)
\* the payloads of the members of DistanceInputs with 261 bytes of history
LongHistoryPayloads ==
    { FixedPayload(LongHistoryTokens(p[1], DistExtra(p))) : p \in DistPairs }

\* the distance RFC 1951 gives the distance symbol and the extra bits of
\* the last iteration
SymRfcDist ==
    IF sym.dsym <= 3 THEN sym.dsym + 1
    ELSE RfcDistBases[sym.dsym + 1] + sym.extra_dist
\* the length of the output before the copy of the last iteration
LenBeforeCopy == Len(out_buf) - (IF sym.kind = "copy" THEN sym.length ELSE 0)

\* C5: a back-reference with distance symbol D in 0 .. 29 and extra bits e
\* copies from dist bytes before the end of the output, dist being D + 1
\* for D <= 3 and the RFC 1951 base of D plus e otherwise: the distance
\* handed to copy_back_pointer is dist less the one that copy_back_pointer
\* subtracts again, and the first byte appended is the byte dist positions
\* before the old end. D and e are the symbol and the extra bits the writer
\* put in the stream. Literal 'a', length 7, distance 1 yields eight 'a'.
C5_CopyDistance ==
    /\ (sym.dist # None /\ sym.dsym <= 29) => sym.dist + 1 = SymRfcDist
    /\ (sym.dist # None /\ sym.dsym <= 29 /\ LenBeforeCopy = 261
        /\ PayloadOf(buffer) \in LongHistoryPayloads) =>
          PayloadOf(buffer)
          = FixedPayload(LongHistoryTokens(sym.dsym,
                IF sym.extra_dist = None THEN 0 ELSE sym.extra_dist))
    /\ (sym.kind = "copy" /\ sym.dsym <= 29) =>
          /\ SymRfcDist <= LenBeforeCopy
          /\ out_buf[LenBeforeCopy + 1] = out_buf[LenBeforeCopy + 1 - SymRfcDist]
    /\ (Done /\ buffer = FixedMember(LengthTokens(261, 0))) =>
          (result = "Some" /\ out_buf = Repeat(97, 8))

\* a copy at distance 257 (symbol 16) has been made
C5_Witness == sym.kind = "copy" /\ sym.dsym = 16 /\ Len(out_buf) = 265

\* C6: a back-reference whose distance is greater than the length of the
\* output is not copied, and inflate returns failure as a value; nothing
\* aborts.
C6_DistanceTooLarge ==
    (sym.dist # None /\ sym.dist + 1 > LenBeforeCopy) =>
        (inflate_ret = "None" /\ ~Aborted)

\* C7: a block with BTYPE 00 is decoded, not rejected: the member holding
\* the stored block of "a" decodes to "a".
C7_StoredDecoded ==
    /\ block_format = 0 => inflate_ret # "None"
    /\ (Done /\ buffer = GoodMember(StoredA, <<97>>)) =>
          (result = "Some" /\ out_buf = <<97>>)

\* the symbols of a range list that have the bit length L
RangeCount(ranges, L) ==
    LET width(k) == IF k = 1 THEN ranges[k].end + 1
                    ELSE ranges[k].end - ranges[k - 1].end
        RECURSIVE sum(_)
        sum(k) == IF k = 0 THEN 0
                  ELSE (IF ranges[k].bit_length = L THEN width(k) ELSE 0)
                       + sum(k - 1)
    IN  sum(Len(ranges))
\* more codes than the lengths leave room for (Kraft's sum is above 1)
Oversubscribed(ranges) ==
    LET RECURSIVE kraft(_)
        kraft(L) == IF L = 0 THEN 0
                    ELSE RangeCount(ranges, L) * Pow2(15 - L) + kraft(L - 1)
    IN  kraft(15) > Pow2(15)

\* C8: build_huffman_tree given oversubscribed code lengths returns failure
\* as a value, so that inflate fails; tree construction never aborts.
C8_OversubscribedFails ==
    (tree_ranges # <<>> /\ Oversubscribed(tree_ranges[Len(tree_ranges)])) =>
        (inflate_ret = "None" /\ ~Aborted)

\* C9: a literal/length symbol S >= 286 makes inflate return failure, and
\* so does a distance symbol outside 0 .. 29, as a value, without indexing
\* the distance table or copying.
C9_BadSymbolsFail ==
    /\ (sym.code # None /\ sym.code >= 286) =>
          (sym.kind = "none" /\ inflate_ret = "None")
    /\ (sym.dsym # None /\ sym.dsym > 29) =>
          (sym.kind = "none" /\ inflate_ret = "None")

\* the payloads of LengthInputs
LengthPayloads == { FixedPayload(LengthTokens(p[1], p[2])) : p \in LengthPairs }

\* C10: the copy length of a length symbol S in 257 .. 285 is S - 254 up to
\* 264, without extra bits; EXTRA_LENGTH_ADDEND[S - 265] + e for S in
\* 265 .. 284, e being the (S - 261) >> 2 extra bits the writer put after
\* the symbol, where the u32 table index is S - 265, in 0 .. 19, and the
\* addends are the RFC 1951 bases 11 .. 227; and 258 for S = 285. The
\* length is in 3 .. 258.
C10_CopyLength ==
    sym.length # None =>
        /\ sym.code \in 257 .. 285
        /\ sym.length \in 3 .. 258
        /\ sym.code <= 264 =>
              (sym.extra_bits = None /\ sym.length = sym.code - 254)
        /\ sym.code \in 265 .. 284 =>
              /\ sym.extra_bits \in 0 .. Ones((sym.code - 261) \div 4)
              /\ length_index(sym.code) = <<0, sym.code - 265>>
              /\ sym.code - 265 \in 0 .. 19
              /\ sym.length = EXTRA_LENGTH_ADDEND[sym.code - 265 + 1]
                              + sym.extra_bits
              /\ EXTRA_LENGTH_ADDEND[sym.code - 265 + 1]
                 = RfcLengthBases[sym.code - 256]
        /\ sym.code = 285 => (sym.extra_bits = None /\ sym.length = 258)
        /\ PayloadOf(buffer) \in LengthPayloads =>
              PayloadOf(buffer)
              = FixedPayload(LengthTokens(sym.code,
                    IF sym.extra_bits = None THEN 0 ELSE sym.extra_bits))

\* the length of symbol 265 with the extra bit set has been computed
C10_Witness ==
    /\ sym.kind = "copy" /\ sym.code = 265 /\ sym.length = 12
    /\ PayloadOf(buffer) \in LengthPayloads

\* the arguments and the outcome of a finished call of copy_back_pointer
CopyCalled == call.op = "copy_back_pointer" /\ pc = "done"
CopyLen == Len(call.cvec)

C12_SizeChecked ==
    Returned => out_len = W32(Len(out_buf))

\* parse_header has returned on its own
HeaderParsed == call.op = "parse_header"

\* RFC 1952 2.3 read off the bytes (the FEXTRA length as this decoder's
\* format has it, after a two-byte id and high byte first): the index of the
\* last byte of each optional field, None when the buffer ends before it
HdrFlag(b, k) == (b[4] \div Pow2(k)) % 2 = 1
ZeroAfter(b, p) ==
    IF p = None THEN None
    ELSE LET zeros == {k \in (p + 1) .. Len(b) : b[k] = 0}
         IN  IF zeros = {} THEN None
             ELSE CHOOSE k \in zeros : \A z \in zeros : k <= z
AfterExtra(b) ==
    IF ~HdrFlag(b, 2) THEN 10
    ELSE IF Len(b) < 14 \/ 14 + b[13] * 256 + b[14] > Len(b) THEN None
    ELSE 14 + b[13] * 256 + b[14]
AfterName(b) == IF HdrFlag(b, 3) THEN ZeroAfter(b, AfterExtra(b)) ELSE AfterExtra(b)
AfterComment(b) == IF HdrFlag(b, 4) THEN ZeroAfter(b, AfterName(b)) ELSE AfterName(b)
FormatLen(b) ==
    IF AfterComment(b) = None THEN None
    ELSE IF ~HdrFlag(b, 1) THEN AfterComment(b)
    ELSE IF AfterComment(b) + 2 > Len(b) THEN None
    ELSE AfterComment(b) + 2

\* C13: whenever parse_header succeeds, header_len is the number of input
\* bytes the header occupies (10, then FEXTRA, FNAME, FCOMMENT and FHCRC in
\* this order where their flags are set) and never exceeds the input
\* length; it is 10 for the header without flags, 25 with FNAME, FCOMMENT
\* and FHCRC, 33 with FEXTRA as well.
C13_HeaderLen ==
    (HeaderParsed /\ header.ok) =>
        /\ header.header_len <= Len(buffer)
        /\ FormatLen(buffer) # None => header.header_len = FormatLen(buffer)
        /\ buffer = BasicTestHeader => header.header_len = 10
        /\ buffer = PartialHeader => header.header_len = 25
        /\ buffer = ComplexHeader => header.header_len = 33

\* bytes that no UTF-8 string holds, and strings that are not UTF-8 because
\* they hold one or start with a continuation byte
NeverUtf8 == {192, 193} \cup (245 .. 255)
NotUtf8(b, from, to) ==
    \/ \E k \in from .. to : b[k] \in NeverUtf8
    \/ from <= to /\ b[from] \in 128 .. 191
NameNotUtf8(b) ==
    /\ HdrFlag(b, 3) /\ AfterName(b) # None
    /\ NotUtf8(b, AfterExtra(b) + 1, AfterName(b) - 1)
CommentNotUtf8(b) ==
    /\ HdrFlag(b, 4) /\ AfterComment(b) # None
    /\ NotUtf8(b, AfterName(b) + 1, AfterComment(b) - 1)

\* C14: if an optional field whose flag is set is truncated (the input ends
\* before the FEXTRA id, length or payload is complete, before the 0x00 of
\* FNAME or FCOMMENT, or before both FHCRC bytes) or FNAME or FCOMMENT is
\* not valid UTF-8, parse_header returns failure: no header record with the
\* field absent or shortened.
C14_BrokenFieldFails ==
    (/\ HeaderParsed
     /\ Len(buffer) >= 10
     /\ buffer[1] = 31 /\ buffer[2] = 139 /\ buffer[3] = 8
     /\ \/ FormatLen(buffer) = None
        \/ NameNotUtf8(buffer)
        \/ CommentNotUtf8(buffer))
    => ~header.ok

\* C15: parse_header fails when the first two bytes are not 1F 8B or the
\* third is not 8, whatever the other bytes are; when it succeeds,
\* compression_method is 8, the five flags are bits 0..4 of the fourth byte
\* (the upper three bits are ignored), mtime is the little-endian u32 of
\* bytes 4..7 and extra_flags and os are bytes 8 and 9 (counted from 0).
C15_FixedFields ==
    HeaderParsed =>
        /\ ~(/\ Len(buffer) >= 3
             /\ buffer[1] = 31 /\ buffer[2] = 139 /\ buffer[3] = 8)
           => ~header.ok
        /\ header.ok =>
            /\ Len(buffer) >= 10
            /\ header.compression_method = 8
            /\ header.flags.FTEXT = HdrFlag(buffer, 0)
            /\ header.flags.FHCRC = HdrFlag(buffer, 1)
            /\ header.flags.FEXTRA = HdrFlag(buffer, 2)
            /\ header.flags.FNAME = HdrFlag(buffer, 3)
            /\ header.flags.FCOMMENT = HdrFlag(buffer, 4)
            /\ header.mtime = <<buffer[7] + 256 * buffer[8],
                                buffer[5] + 256 * buffer[6]>>
            /\ header.extra_flags = buffer[9]
            /\ header.os = buffer[10]
C15_Witness ==
    /\ HeaderParsed /\ header.ok
    /\ SubSeq(buffer, 4, 10) = <<255, 18, 52, 86, 120, 0, 7>>
    /\ header.flags = [FTEXT |-> TRUE, FHCRC |-> TRUE, FEXTRA |-> TRUE,
                       FNAME |-> TRUE, FCOMMENT |-> TRUE]
    /\ header.mtime = <<30806, 13330>> /\ header.extra_flags = 0
    /\ header.os = 7

\* bit k of the byte stream b, from the least significant bit of each byte,
\* and bit j of a u32 <<hi, lo>>
StreamBit(b, k) == (b[(k \div 8) + 1] \div Pow2(k % 8)) % 2
U32Bit(v, j) ==
    IF j < 16 THEN (v[2] \div Pow2(j)) % 2 ELSE (v[1] \div Pow2(j - 16)) % 2
IsU32(v) == v[1] \in 0 .. 65535 /\ v[2] \in 0 .. 65535
BitsLeft == 8 * Len(buffer) - call.pos

\* C16: the i-th call of next_bit returns bit (i mod 8) of b[i div 8], from
\* the least significant bit, and fails once all 8k bits are consumed;
\* read_bits(n) returns the sum of (j-th bit read) << j, read_bits_rev(n) the
\* sum of (j-th bit read) << (n-1-j), the n-bit reversal of what read_bits(n)
\* returns from the same position.
C16_BitOrder ==
    /\ call.op = "next_bit" =>
         ret = IF BitsLeft > 0 THEN StreamBit(buffer, call.pos) ELSE None
    /\ (call.op = "read_bits" /\ call.count <= BitsLeft) =>
         /\ IsU32(ret)
         /\ \A j \in 0 .. U32_BITS - 1 :
              U32Bit(ret, j) = IF j < call.count
                               THEN StreamBit(buffer, call.pos + j) ELSE 0
    /\ (call.op = "read_bits_rev" /\ call.count <= BitsLeft) =>
         /\ IsU32(ret)
         /\ \A j \in 0 .. U32_BITS - 1 :
              U32Bit(ret, j) =
                IF j < call.count
                THEN StreamBit(buffer, call.pos + call.count - 1 - j) ELSE 0
         /\ \A j \in 0 .. call.count - 1 :
              U32Bit(ret, j) =
                U32Bit(read_bits_u32(call.from, buffer, call.count).v,
                       call.count - 1 - j)
C16_Witness ==
    /\ buffer = <<1, 2, 3, 4>>
    /\ call.op = "read_bits_rev" /\ call.pos = 9 /\ call.count = 9
    /\ ret = <<0, 259>>

\* v << n on a u32 <<hi, lo>>; Below(v, m) says v < 2^m, so that v << n
\* loses no bit when n + m <= 32; Fits32 says a + b is below 2^32
RECURSIVE Shl32(_, _)
Shl32(v, n) ==
    IF n = 0 THEN v
    ELSE Shl32(<<(v[1] * 2 + (v[2] \div 32768)) % 65536, (v[2] * 2) % 65536>>,
               n - 1)
Below(v, m) == IsU32(v) /\ \A j \in m .. U32_BITS - 1 : U32Bit(v, j) = 0
Fits32(a, b) == a[1] + b[1] + ((a[2] + b[2]) \div 65536) < 65536
\* first = [rd, v] after read_bits(n), then second after read_bits(m), and
\* whole after read_bits(n + m) from where the first read started
SplitAgrees(first, n, second, m, whole) ==
    /\ Below(first.v, n) /\ Below(second.v, m)
    /\ Fits32(first.v, Shl32(second.v, n))
    /\ whole.v = Add32(first.v, Shl32(second.v, n))
    /\ whole.rd = second.rd

\* C17: with n + m <= 32 and at least n + m bits remaining, read_bits(n)
\* followed by read_bits(m) returns v1 and v2 with v1 + (v2 << n) equal to
\* what read_bits(n + m) returns from the same position, and leaves the
\* reader in the same state; read_bits(0) returns 0 and changes nothing.
C17_ReadBitsSplit ==
    call.op = "read_bits" =>
        /\ \A m \in 0 .. U32_BITS - call.count :
             call.count + m <= BitsLeft =>
                SplitAgrees([rd |-> stream, v |-> ret], call.count,
                            read_bits_u32(stream, buffer, m), m,
                            read_bits_u32(call.from, buffer, call.count + m))
        /\ call.count = 0 => ret = <<0, 0>> /\ stream = call.from
C17_Witness ==
    /\ buffer = <<1, 2, 3, 4>>
    /\ call.op = "read_bits" /\ call.pos = 9 /\ call.count = 9
    /\ ret = <<0, 385>>
    /\ read_bits_u32(stream, buffer, 14).v = <<0, 256>>
    /\ read_bits_u32(call.from, buffer, 23).v = <<2, 385>>

\* the reflected CRC-32 bit by bit: the register starts at 0xFFFFFFFF, each
\* byte is xored into its low bits and the register is divided eight times
\* by the polynomial 0xEDB88320, and the result is complemented
RECURSIVE Crc32Shift(_, _)
Crc32Shift(reg, k) ==
    IF k = 0 THEN reg
    ELSE IF reg[2] % 2 = 1
         THEN Crc32Shift(Xor32(Shr1(reg), <<60856, 33568>>), k - 1)
         ELSE Crc32Shift(Shr1(reg), k - 1)
RECURSIVE Crc32Reg(_, _)
Crc32Reg(bytes, n) ==
    IF n = 0 THEN <<65535, 65535>>
    ELSE Crc32Shift(Xor32(Crc32Reg(bytes, n - 1), <<0, bytes[n]>>), 8)
Crc32Of(bytes) == Xor32(Crc32Reg(bytes, Len(bytes)), <<65535, 65535>>)

\* C18: crc32::sum returns the reflected IEEE CRC-32 of its bytes: 0 for the
\* empty sequence, 0xE8B7BE43 for "a", 0xCBF43926 for "123456789".
C18_Crc32 ==
    call.op = "crc32_sum" =>
        /\ ret = Crc32Of(buffer)
        /\ buffer = <<>> => ret = <<0, 0>>
        /\ buffer = <<97>> => ret = <<59575, 48707>>
        /\ buffer = CheckString => ret = <<52212, 14630>>
C18_Witness ==
    call.op = "crc32_sum" /\ buffer = CheckString /\ ret = <<52212, 14630>>

\* the canonical code of a range list, symbol by symbol: the bit length of
\* symbol s, the number of symbols of length L, the first code of length L
\* and the code of s
TableBuilt == call.op = "build_huffman_tree"
LastSymbol(ranges) == ranges[Len(ranges)].end
SymLen(ranges, s) ==
    ranges[CHOOSE k \in DOMAIN ranges :
             /\ s <= ranges[k].end
             /\ \A j \in 1 .. k - 1 : s > ranges[j].end].bit_length
LenCount(ranges, L) ==
    Cardinality({s \in 0 .. LastSymbol(ranges) : SymLen(ranges, s) = L})
RECURSIVE FirstCode(_, _)
FirstCode(ranges, L) ==
    IF L = 1 THEN 0
    ELSE (FirstCode(ranges, L - 1) + LenCount(ranges, L - 1)) * 2
CanonicalCode(ranges, s) ==
    FirstCode(ranges, SymLen(ranges, s))
    + Cardinality({t \in 0 .. s - 1 : SymLen(ranges, t) = SymLen(ranges, s)})

\* C19: the code table built by count_bitlengths, compute_first_codes and
\* compute_code_table from an ordered range list (each range ends after the
\* one before it) is canonical: a symbol of bit length 0 gets no code, the
\* first code of length L is (first_code(L-1) + count(L-1)) << 1 with
\* first_code(1) = 0, and symbols of equal length get consecutive codes in
\* increasing symbol order; for the test ranges the counts are
\* [0,0,0,7,8,12], the 4-, 5- and 6-bit codes start at 0, 14 and 44 and 27
\* symbols are coded.
C19_CanonicalTable ==
    TableBuilt =>
        /\ { ret[k].label : k \in DOMAIN ret }
             = { s \in 0 .. LastSymbol(call.ranges) : SymLen(call.ranges, s) > 0 }
        /\ \A k \in DOMAIN ret :
             /\ k > 1 => ret[k - 1].label < ret[k].label
             /\ ret[k].len = SymLen(call.ranges, ret[k].label)
             /\ ret[k].bits = CanonicalCode(call.ranges, ret[k].label)
        /\ \A L \in DOMAIN call.bl_count :
             /\ call.bl_count[L] = LenCount(call.ranges, L)
             /\ call.bl_count[L] > 0 =>
                  call.next_code[L] = FirstCode(call.ranges, L)
        /\ call.ranges = TestRanges =>
             /\ call.bl_count = <<0, 0, 0, 7, 8, 12>>
             /\ call.next_code[4] = 0 /\ call.next_code[5] = 14
             /\ call.next_code[6] = 44
             /\ Len(ret) = 27
C19_Witness ==
    /\ TableBuilt /\ call.ranges = TestRanges
    /\ Len(ret) = 27
    /\ ret[1] = TreeNode(4, 0, 0) /\ ret[3] = TreeNode(6, 44, 2)
    /\ ret[8] = TreeNode(5, 14, 7)

\* the number of bits of the buffer a reader has consumed
Log2(m) == CHOOSE k \in 0 .. 7 : Pow2(k) = m
ReaderPos(rd) ==
    IF rd.mask = 0 THEN 8 * rd.iter.index
    ELSE 8 * (rd.iter.index - 1) + Log2(rd.mask)
Inflating == pc \in {"block", "tree", "codelen", "symbol"}
Extends(longer, shorter) ==
    /\ Len(longer) >= Len(shorter)
    /\ SubSeq(longer, 1, Len(shorter)) = shorter

\* a block header is read where the block before it ended: BFINAL, then the
\* two bits of BTYPE from the least significant
HeaderRead ==
    (pc = "block" /\ pc' \in {"symbol", "tree"}) =>
        /\ last_block' = StreamBit(buffer, ReaderPos(stream))
        /\ block_format' = StreamBit(buffer, ReaderPos(stream) + 1)
                           + 2 * StreamBit(buffer, ReaderPos(stream) + 2)
        /\ ReaderPos(stream') = ReaderPos(stream) + 3
\* while inflate has not failed the output only grows at its end
OutputAppended ==
    (Inflating /\ inflate_ret' # "None" /\ result' # "abort") =>
        Extends(out_buf', out_buf)
\* nothing is read once inflate has returned success
NothingReadAfter == inflate_ret = "Some" => stream' = stream
\* BTYPE 11 makes inflate return failure
ReservedFails ==
    (pc = "block" /\ block_format' = 3 /\ pc' # "block") =>
        inflate_ret' = "None"
\* inflate has returned success only after symbol 256 of a block with
\* BFINAL = 1 was decoded
FinalBlockCompleted ==
    inflate_ret = "Some" => (last_block = 1 /\ sym.kind = "stop")

\* C20: inflate processes the blocks in stream order, reading BFINAL and
\* then BTYPE for each, and appends every block's bytes after those of the
\* earlier blocks; it returns success only after a block with BFINAL = 1 has
\* completed, consumes no bits after that block, and returns failure on
\* BTYPE 11 or when the stream ends before a BFINAL = 1 block has completed.
C20_BlockProtocol ==
    /\ []FinalBlockCompleted
    /\ [][HeaderRead /\ OutputAppended /\ NothingReadAfter /\ ReservedFails]_vars

\* the n bits of the buffer from bit p on, the first one least significant
StreamBits(b, p, n) ==
    LET RECURSIVE sum(_)
        sum(j) == IF j = 0 THEN 0
                  ELSE StreamBit(b, p + j - 1) * Pow2(j - 1) + sum(j - 1)
    IN  sum(n)
\* the bits the reader of decompress_gz may still read
PayloadBitsLeft(rd) == 8 * (Len(buffer) - 8) - ReaderPos(rd)
\* the symbols whose code-length code lengths are stored, in stream order
LengthOrder == <<16, 17, 18, 0, 8, 7, 9, 6, 10, 5, 11, 4, 12, 3, 13, 2, 14, 1, 15>>
\* the k-th three-bit length after the 14 bits of HLIT, HDIST and HCLEN
StoredLength(p, hclen, s) ==
    IF \E k \in 1 .. hclen + 4 : LengthOrder[k] = s
    THEN StreamBits(buffer, p + 14 + 3 * ((CHOOSE k \in 1 .. hclen + 4 :
                                             LengthOrder[k] = s) - 1), 3)
    ELSE 0
\* read_huffman_tree got as far as the loop: HLIT, HDIST, and the code-length
\* code lengths in their positions
TreeHeaderRead ==
    (pc = "tree" /\ pc' = "codelen") =>
        /\ hlit' = StreamBits(buffer, ReaderPos(stream), 5)
        /\ hdist' = StreamBits(buffer, ReaderPos(stream) + 5, 5)
        /\ ReaderPos(stream') = ReaderPos(stream) + 14
              + 3 * (StreamBits(buffer, ReaderPos(stream) + 10, 4) + 4)
        /\ alphabet' = <<>>
        /\ LastSymbol(tree_ranges'[1]) = 18
        /\ \A s \in 0 .. 18 :
             SymLen(tree_ranges'[1], s)
               = StoredLength(ReaderPos(stream),
                              StreamBits(buffer, ReaderPos(stream) + 10, 4), s)
\* c = [rd, v] is the symbol the code-length tree decodes next: what the
\* step of the loop appends
Appended(c, extra, base, value) ==
    IF PayloadBitsLeft(c.rd) < extra THEN inflate_ret' = "None"
    ELSE /\ alphabet' = alphabet
               \o [k \in 1 .. base + StreamBits(buffer, ReaderPos(c.rd), extra)
                     |-> value]
         /\ ReaderPos(stream') = ReaderPos(c.rd) + extra
LengthDecoded(c) ==
    CASE c.v = None -> inflate_ret' = "None"
      [] c.v \in 0 .. 15 -> alphabet' = Append(alphabet, c.v) /\ stream' = c.rd
      [] c.v = 16 -> IF alphabet = <<>> THEN inflate_ret' = "None"
                     ELSE Appended(c, 2, 3, alphabet[Len(alphabet)])
      [] c.v = 17 -> Appended(c, 3, 3, 0)
      [] c.v = 18 -> Appended(c, 7, 11, 0)
      [] OTHER -> FALSE
CodeLengthDecoded ==
    (pc = "codelen" /\ Len(alphabet) < hlit + hdist + 258) =>
        /\ LengthDecoded(read(code_lengths_root, 1, stream, buffer))
        /\ tree_ranges' = tree_ranges
\* the lengths are split into the two alphabets
TreesSplit ==
    (pc = "codelen" /\ Len(alphabet) >= hlit + hdist + 258) =>
        /\ alphabet' = alphabet
        /\ LastSymbol(tree_ranges'[1]) = hlit + 256
        /\ \A s \in 0 .. hlit + 256 :
             SymLen(tree_ranges'[1], s) = alphabet[s + 1]
        /\ Len(tree_ranges') = 2 =>
             /\ LastSymbol(tree_ranges'[2]) = hdist
             /\ \A d \in 0 .. hdist :
                  SymLen(tree_ranges'[2], d) = alphabet[hlit + 257 + d + 1]

\* C21: read_huffman_tree reads HCLEN + 4 three-bit lengths into the
\* positions 16,17,18,0,8,7,9,6,10,5,11,4,12,3,13,2,14,1,15 (the rest 0) and
\* decodes the code lengths with that tree: a symbol 0..15 appends that
\* length, 16 the previous length 3 + (2 extra bits) times, 17 a zero 3 + (3
\* extra bits) times, 18 a zero 11 + (7 extra bits) times, until at least
\* HLIT + HDIST + 258 lengths exist; the entries [0, HLIT + 257) are the
\* literal/length lengths, the next HDIST + 1 the distance lengths; symbol 16
\* with no previous length makes it return failure.
C21_TreeRead == [][TreeHeaderRead /\ CodeLengthDecoded /\ TreesSplit]_vars
C21_Witness ==
    /\ pc = "symbol" /\ PayloadOf(buffer) = DynamicRepeat
    /\ hlit = 0 /\ hdist = 0 /\ Len(alphabet) = 258
    /\ SubSeq(alphabet, 1, 5) = <<3, 3, 3, 3, 0>> /\ alphabet[257] = 1
    /\ tree_ranges[1]
         = <<HuffmanRange(3, 3), HuffmanRange(255, 0), HuffmanRange(256, 1)>>

\* the canonical code of symbol s computed from the ranges themselves (the
\* rank of s among the symbols of its length, the first code of a length),
\* and the stream bits a call of HuffmanNode::read starts on
TreeWasRead == call.op = "read"
RangeStart(ranges, k) == IF k = 1 THEN 0 ELSE ranges[k - 1].end + 1
RankOf(ranges, s) ==
    LET before(k) ==
            IF ranges[k].bit_length # SymLen(ranges, s)
               \/ RangeStart(ranges, k) >= s
            THEN 0
            ELSE IF ranges[k].end < s
                 THEN ranges[k].end - RangeStart(ranges, k) + 1
                 ELSE s - RangeStart(ranges, k)
        RECURSIVE sum(_)
        sum(k) == IF k = 0 THEN 0 ELSE before(k) + sum(k - 1)
    IN  sum(Len(ranges))
RECURSIVE FirstOf(_, _)
FirstOf(ranges, L) ==
    IF L = 1 THEN 0
    ELSE (FirstOf(ranges, L - 1) + RangeCount(ranges, L - 1)) * 2
CodeOf(ranges, s) == FirstOf(ranges, SymLen(ranges, s)) + RankOf(ranges, s)
\* the next L bits of the stream are the code, most significant bit first
NextBitsAre(code, L) ==
    /\ ReaderPos(call.from) + L <= 8 * Len(buffer)
    /\ \A j \in 1 .. L :
         StreamBit(buffer, ReaderPos(call.from) + j - 1)
           = (code \div Pow2(L - j)) % 2
Coded(ranges) == {s \in 0 .. LastSymbol(ranges) : SymLen(ranges, s) > 0}

\* C22: for a range list whose positive code lengths are not
\* oversubscribed, build_huffman_tree returns a tree (no abort) on which
\* HuffmanNode::read decodes every assigned code: when the next L bits of
\* the stream are the canonical code of a symbol s of length L > 0, most
\* significant bit first, read returns s and has consumed exactly L bits;
\* when the bits are the code of no symbol (they lead to an absent child)
\* read returns failure.  The fixed ranges are among the lists.
C22_TreeDecodes ==
    (TreeWasRead /\ ~Oversubscribed(call.ranges)) =>
        /\ result # "abort"
        /\ \A s \in Coded(call.ranges) :
             NextBitsAre(CodeOf(call.ranges, s), SymLen(call.ranges, s)) =>
                /\ ret = s
                /\ ReaderPos(stream)
                     = ReaderPos(call.from) + SymLen(call.ranges, s)
        /\ (\A s \in Coded(call.ranges) :
              ~NextBitsAre(CodeOf(call.ranges, s), SymLen(call.ranges, s)))
             => ret = None
\* 'a' (97) of the fixed code is 10010001, read one bit into the stream
C22_Witness ==
    /\ TreeWasRead
    /\ call.ranges = FIXED_TREE_RANGES
    /\ ReaderPos(call.from) = 1
    /\ NextBitsAre(145, 8)
    /\ ret = 97
    /\ ReaderPos(stream) = 9

\* the payload window [header_len, N - 8) of decompress_gz, the index of the
\* byte the reader loaded last and the byte it holds
PayloadFrom == header.header_len
PayloadEnd == Len(buffer) - 8
NoPayload == PayloadFrom >= PayloadEnd
ReaderMade == stream # NoReader
LastLoaded ==
    IF stream.iter.index > PayloadEnd THEN PayloadEnd - 1
    ELSE stream.iter.index - 1
\* the byte in the reader is a byte of the window, the bits taken from it
\* are bits of that byte; a reader past the window holds the last byte of
\* the window and delivers nothing more
LoadedInWindow ==
    (ReaderMade /\ ~NoPayload) =>
        /\ PayloadFrom <= LastLoaded
        /\ LastLoaded < PayloadEnd
        /\ stream.buf = buffer[LastLoaded + 1]
        /\ stream.iter.index > PayloadEnd => stream.mask = 0
\* an empty window: the reader is not built and nothing is decoded
NothingLoaded ==
    (ReaderMade /\ NoPayload) =>
        /\ stream.buf = 0
        /\ stream.mask = 0
        /\ ~Inflating
        /\ inflate_ret = "pending"
        /\ out_buf = <<>>
\* no byte is loaded before the header is parsed
NotBeforeHeader ==
    pc \in {"start", "footer", "header", "reader"} => ~ReaderMade
\* the bytes are loaded one after the other, from header_len on
LoadedInOrder ==
    /\ stream'.iter.index >= stream.iter.index
    /\ (~ReaderMade /\ ReaderMade') =>
          /\ stream'.iter.index = PayloadFrom + 1
          /\ ~NoPayload => (stream'.mask = 1 /\ stream'.buf = buffer[PayloadFrom + 1])
    /\ ReaderMade => (buffer' = buffer /\ header' = header)

\* C23: during decompress_gz every byte the bit reader loads has an index
\* i with header_len <= i < N - 8, the bytes are loaded in increasing index
\* order starting at header_len, and nothing below header_len or of the 8
\* footer bytes is decoded; when header_len >= N - 8 no byte is loaded and
\* inflate is not run.
C23_PayloadWindow ==
    /\ [](LoadedInWindow /\ NothingLoaded /\ NotBeforeHeader)
    /\ [][LoadedInOrder]_vars
\* a truncated payload: the reader ran into the end of the window, holding
\* the last payload byte; and a header that reaches into the footer
C23_Witness ==
    /\ ReaderMade
    /\ ~NoPayload
    /\ stream.iter.index > PayloadEnd
    /\ stream.mask = 0
    /\ stream.buf = buffer[PayloadEnd]
    /\ inflate_ret = "None"

\* one iteration of each loop of inflate, seen as a step of the run: the
\* block loop (the three header bits), the code-length loop of
\* read_huffman_tree and the symbol loop of inflate_huffman_codes
BlockIteration == pc = "block" /\ Inflating'
TreeStarted == pc = "tree" /\ pc' = "codelen"
CodeLengthIteration == pc = "codelen" /\ pc' = "codelen"
SymbolIteration == pc = "symbol" /\ pc' = "symbol"
BitsConsumed == ReaderPos(stream') - ReaderPos(stream)
\* an iteration that does not end its loop consumes bits of the payload,
\* a repeat appends at most 138 lengths and a copy at most 258 bytes
LoopsConsume ==
    /\ BlockIteration => BitsConsumed = 3
    /\ TreeStarted => BitsConsumed >= 14 + 3 * 4
    /\ CodeLengthIteration =>
          /\ BitsConsumed >= 1
          /\ i' = Len(alphabet')
          /\ Len(alphabet') - Len(alphabet) \in 1 .. 138
    /\ SymbolIteration =>
          /\ BitsConsumed >= 1
          /\ Len(out_buf') - Len(out_buf) \in 1 .. 258
    /\ (BlockIteration \/ TreeStarted \/ CodeLengthIteration \/ SymbolIteration)
          => ReaderPos(stream') <= 8 * PayloadEnd
\* while inflate runs the reader stands in the payload, or one byte past it
\* when the symbol loop ended on the end of the stream
ReaderBounded ==
    Inflating =>
        /\ ReaderPos(stream) >= 8 * PayloadFrom
        /\ ReaderPos(stream) <= 8 * (PayloadEnd + 1)
        /\ ReaderPos(stream) > 8 * PayloadEnd => pc = "block"

\* C24: inflate terminates on every payload, with success, failure or an
\* abort: every iteration of the block loop, of the symbol loop and of the
\* code-length loop that does not end its loop consumes at least one bit of
\* the payload, a repeat appends at most 138 lengths and a back reference
\* copies at most 258 bytes, so the iterations are bounded by the payload
\* bits and the call of decompress_gz reaches its end.
C24_Terminates ==
    /\ <>Done
    /\ []ReaderBounded
    /\ [][LoopsConsume]_vars
\* a run that ended after a back reference of 258 bytes
C24_Witness ==
    /\ Done
    /\ result = "Some"
    /\ inflate_ret = "Some"
    /\ Len(out_buf) > 258
    /\ ReaderPos(stream) > 8 * PayloadFrom + 3

=============================================================================
